---- MODULE Spec2Model ----
(***************************************************************************)
(* Verification model of the request pipeline of the ERP backend:          *)
(* sliding-window rate limiting (app/middleware/rate_limit.py), tenant     *)
(* extraction (app/dependencies/tenant.py, app/middleware/tenant.py) and   *)
(* the middleware wiring of app/main.py.                                   *)
(*                                                                         *)
(* Strings are tuples of one-character strings, so that startswith, split  *)
(* and concatenation are computed and not assumed.  Time is counted in     *)
(* ticks of 1/TicksPerSecond second; windows are whole seconds as in the   *)
(* source (window: int).                                                   *)
(***************************************************************************)
EXTENDS Integers, Sequences, FiniteSets, TLC

VARIABLES
    now,        \* time.time(), in ticks
    storage,    \* InMemoryRateLimiter.storage: key -> list of timestamps
    rule,       \* the (limit, window) the limiter is called with
    hist,       \* history: per key, the is_allowed and reset calls made
    last,       \* the result of the most recent limiter operation
    nops,       \* number of limiter operations made so far
    route_limits,   \* RateLimitMiddleware.route_limits, in insertion order
    resolved,       \* the last _get_rate_limit_config(path): the rules it read, its result
    treq,           \* the request given to extract_tenant_id_from_request
    tres,           \* what extract_tenant_id_from_request returned for it
    tdep,           \* the tenant dependency called for it and its outcome
    redis,          \* RedisRateLimiter's store: key -> sorted set and expiry time
    use_async,      \* RateLimitMiddleware.use_async (the Redis backend is used)
    stack,          \* the middleware stack, outermost first
    reqs,           \* the requests in flight
    arrived,        \* number of requests received so far
    utcnow,         \* datetime.utcnow(), in ticks since the epoch
    tz,             \* the server's local time zone: seconds east of UTC
    tok,            \* the token most recently issued or altered
    areq,           \* the request given to get_current_user or to a guard
    ares,           \* the outcome of the most recent token or guard operation
    role_permissions,   \* ROLE_PERMISSIONS: role -> list of permissions
    rres            \* the outcome of the most recent request to a protected route

limVars == <<now, storage, rule, hist, last, nops>>
ruleVars == <<route_limits, resolved>>
tenVars == <<treq, tres, tdep>>
pipeVars == <<redis, use_async, stack, reqs, arrived>>
authVars == <<utcnow, tz, tok, areq, ares, role_permissions, rres>>
vars == <<limVars, ruleVars, tenVars, pipeVars, authVars>>

----------------------------------------------------------------------------
(* Bounds *)

TicksPerSecond == 2
MaxTime == 3
MaxLimit == 2
MaxWindow == 2
MaxOps == 4
NumReq == 2
MaxArrivals == 2
MaxPipeTime == 2
MaxAuthTime == 4
MaxGuardTime == 2

Times == 0..MaxTime
Limits == 1..MaxLimit
Windows == 1..MaxWindow

----------------------------------------------------------------------------
(* Python helpers *)

\* None, distinct from every string (its only element is not a character)
None == <<"None">>

\* Python truthiness of an Optional[str]
Truthy(x) == x # None /\ x # <<>>

\* int(n / d) for d > 0: truncation toward zero
IntTrunc(n, d) == IF n >= 0 THEN n \div d ELSE -((-n) \div d)

Max(a, b) == IF a >= b THEN a ELSE b

\* min(list) of a non-empty list
MinOf(ts) == CHOOSE m \in {ts[i] : i \in 1..Len(ts)} :
                 \A i \in 1..Len(ts) : m <= ts[i]

\* del d[key]
DictDel(d, key) == [k \in (DOMAIN d) \ {key} |-> d[k]]

\* d[key] = v
DictSet(d, key, v) == [k \in (DOMAIN d) \cup {key} |-> IF k = key THEN v ELSE d[k]]

----------------------------------------------------------------------------
(* InMemoryRateLimiter *)

\* rate_limit.py:78-81: keep the timestamps with current_time - ts < window
PruneLe(ts, current_time, window) ==
    SelectSeq(ts, LAMBDA t : current_time - t <= window * TicksPerSecond)

Prune(ts, current_time, window) ==
    SelectSeq(ts, LAMBDA t : current_time - t < window * TicksPerSecond)

\* rate_limit.py:91-95
RetryAfter(is_allowed, ts, current_time, window) ==
    IF ~is_allowed /\ ts # <<>>
    THEN IntTrunc(window * TicksPerSecond - (current_time - MinOf(ts)),
                  TicksPerSecond) + 1
    ELSE 0

\* rate_limit.py:97-102
Info(limit, request_count, is_allowed, current_time, window, retry_after) ==
    [limit |-> limit,
     remaining |-> Max(0, limit - request_count - (IF is_allowed THEN 1 ELSE 0)),
     reset |-> IntTrunc(current_time + window * TicksPerSecond, TicksPerSecond),
     retry_after |-> retry_after]

\* a limiter that records rejected requests too
MemIsAllowedRecordAll(st, key, limit, window, current_time) ==
    LET old == IF key \in DOMAIN st THEN st[key] ELSE <<>>
        kept == Prune(old, current_time, window)
        request_count == Len(kept)
        is_allowed == request_count < limit
        new == Append(kept, current_time)
    IN  [storage |-> DictSet(st, key, new),
         allowed |-> is_allowed,
         info |-> Info(limit, request_count, is_allowed, current_time, window,
                       RetryAfter(is_allowed, new, current_time, window))]

\* a limiter that admits one request too many
MemIsAllowedOffByOne(st, key, limit, window, current_time) ==
    LET old == IF key \in DOMAIN st THEN st[key] ELSE <<>>
        kept == Prune(old, current_time, window)
        request_count == Len(kept)
        is_allowed == request_count <= limit
        new == IF is_allowed THEN Append(kept, current_time) ELSE kept
    IN  [storage |-> DictSet(st, key, new),
         allowed |-> is_allowed,
         info |-> Info(limit, request_count, is_allowed, current_time, window,
                       RetryAfter(is_allowed, new, current_time, window))]

\* rate_limit.py:59-104: the new storage, the decision and the info
MemIsAllowed(st, key, limit, window, current_time) ==
    LET old == IF key \in DOMAIN st THEN st[key] ELSE <<>>
        kept == Prune(old, current_time, window)
        request_count == Len(kept)
        is_allowed == request_count < limit
        new == IF is_allowed THEN Append(kept, current_time) ELSE kept
    IN  [storage |-> DictSet(st, key, new),
         allowed |-> is_allowed,
         info |-> Info(limit, request_count, is_allowed, current_time, window,
                       RetryAfter(is_allowed, new, current_time, window))]

\* a reset that clears every key
MemResetAll(st, key) == <<>>

\* rate_limit.py:106-109
MemReset(st, key) == IF key \in DOMAIN st THEN DictDel(st, key) ELSE st

----------------------------------------------------------------------------
(* Strings of the source, as tuples of characters *)

\* s.startswith(prefix)
StartsWith(s, prefix) ==
    /\ Len(prefix) <= Len(s)
    /\ SubSeq(s, 1, Len(prefix)) = prefix

\* main.py:98-117: the patterns given to add_route_limit
\* "/api/hr/employees/public/directory"
PatDirectory ==
    <<"/", "a", "p", "i", "/", "h", "r", "/", "e", "m", "p", "l", "o",
    "y", "e", "e", "s", "/", "p", "u", "b", "l", "i", "c", "/", "d",
    "i", "r", "e", "c", "t", "o", "r", "y">>
\* "/api/hr/employees/public/"
PatPublic ==
    <<"/", "a", "p", "i", "/", "h", "r", "/", "e", "m", "p", "l", "o",
    "y", "e", "e", "s", "/", "p", "u", "b", "l", "i", "c", "/">>
\* "/api/hr/employees/public/contact"
PatContact ==
    <<"/", "a", "p", "i", "/", "h", "r", "/", "e", "m", "p", "l", "o",
    "y", "e", "e", "s", "/", "p", "u", "b", "l", "i", "c", "/", "c",
    "o", "n", "t", "a", "c", "t">>

\* request paths: hr.py:132 (/employees/public/{employee_id}), a path below
\* the contact route, finance.py:26
\* "/api/hr/employees/public/42"
PathPublicId ==
    <<"/", "a", "p", "i", "/", "h", "r", "/", "e", "m", "p", "l", "o",
    "y", "e", "e", "s", "/", "p", "u", "b", "l", "i", "c", "/", "4",
    "2">>
\* "/api/hr/employees/public/contact/1"
PathContactSub ==
    <<"/", "a", "p", "i", "/", "h", "r", "/", "e", "m", "p", "l", "o",
    "y", "e", "e", "s", "/", "p", "u", "b", "l", "i", "c", "/", "c",
    "o", "n", "t", "a", "c", "t", "/", "1">>
\* "/api/finance/journal-entries"
PathFinance ==
    <<"/", "a", "p", "i", "/", "f", "i", "n", "a", "n", "c", "e", "/",
    "j", "o", "u", "r", "n", "a", "l", "-", "e", "n", "t", "r", "i",
    "e", "s">>

\* tenant identifiers, hosts and paths of requests
\* "t1"
StrT1 ==
    <<"t", "1">>
\* "t2"
StrT2 ==
    <<"t", "2">>
\* "t3"
StrT3 ==
    <<"t", "3">>
\* "t4"
StrT4 ==
    <<"t", "4">>
\* "api"
StrApi ==
    <<"a", "p", "i">>
\* "localhost:8000"
HostLocal ==
    <<"l", "o", "c", "a", "l", "h", "o", "s", "t", ":", "8", "0", "0",
    "0">>
\* "example.com"
HostTwoLabels ==
    <<"e", "x", "a", "m", "p", "l", "e", ".", "c", "o", "m">>
\* "t2.example.com"
HostT2 ==
    <<"t", "2", ".", "e", "x", "a", "m", "p", "l", "e", ".", "c", "o",
    "m">>
\* ".example.com"
HostEmptyLabel ==
    <<".", "e", "x", "a", "m", "p", "l", "e", ".", "c", "o", "m">>
\* "/"
PathRoot ==
    <<"/">>
\* "/health"
PathHealth ==
    <<"/", "h", "e", "a", "l", "t", "h">>
\* "/api/t3/users"
PathApiT3 ==
    <<"/", "a", "p", "i", "/", "t", "3", "/", "u", "s", "e", "r", "s">>
\* "/api/_internal/jobs"
PathInternal ==
    <<"/", "a", "p", "i", "/", "_", "i", "n", "t", "e", "r", "n", "a",
    "l", "/", "j", "o", "b", "s">>

\* main.py:93 and middleware/tenant.py:36-44: exempt and excluded prefixes
\* "/docs"
PfxDocs ==
    <<"/", "d", "o", "c", "s">>
\* "/redoc"
PfxRedoc ==
    <<"/", "r", "e", "d", "o", "c">>
\* "/openapi.json"
PfxOpenapi ==
    <<"/", "o", "p", "e", "n", "a", "p", "i", ".", "j", "s", "o", "n">>
\* "/api/docs"
PfxApiDocs ==
    <<"/", "a", "p", "i", "/", "d", "o", "c", "s">>
\* "/api/redoc"
PfxApiRedoc ==
    <<"/", "a", "p", "i", "/", "r", "e", "d", "o", "c">>
\* "/api/openapi.json"
PfxApiOpenapi ==
    <<"/", "a", "p", "i", "/", "o", "p", "e", "n", "a", "p", "i", ".",
    "j", "s", "o", "n">>

\* rate_limit.py:42-47, 269, 275: the pieces of a rate-limit key
\* "rate_limit:"
StrRateLimit ==
    <<"r", "a", "t", "e", "_", "l", "i", "m", "i", "t", ":">>
\* ":tenant:"
StrTenantSep ==
    <<":", "t", "e", "n", "a", "n", "t", ":">>
\* ":path:"
StrPathSep ==
    <<":", "p", "a", "t", "h", ":">>
\* "unknown"
StrUnknown ==
    <<"u", "n", "k", "n", "o", "w", "n">>
\* "10.0.0.9"
ClientHost ==
    <<"1", "0", ".", "0", ".", "0", ".", "9">>
\* "10.0.0.1, 10.0.0.2"
ForwardedFor ==
    <<"1", "0", ".", "0", ".", "0", ".", "1", ",", " ", "1", "0", ".",
    "0", ".", "0", ".", "2">>
\* "10.0.0.1"
ForwardedFirst ==
    <<"1", "0", ".", "0", ".", "0", ".", "1">>

\* hashlib.md5(path.encode()).hexdigest()[:8] of the request paths
\* "febd9bd9"
Md5Health ==
    <<"f", "e", "b", "d", "9", "b", "d", "9">>
\* "b881e8f7"
Md5PublicId ==
    <<"b", "8", "8", "1", "e", "8", "f", "7">>
\* "f7b1db38"
Md5Finance ==
    <<"f", "7", "b", "1", "d", "b", "3", "8">>
\* "7cf95569"
Md5ApiOpenapi ==
    <<"7", "c", "f", "9", "5", "5", "6", "9">>
\* "/api/hr/employees/public/43"
PathPublicOther ==
    <<"/", "a", "p", "i", "/", "h", "r", "/", "e", "m", "p", "l", "o",
    "y", "e", "e", "s", "/", "p", "u", "b", "l", "i", "c", "/", "4",
    "3">>
\* "3d26abf2"
Md5PublicOther ==
    <<"3", "d", "2", "6", "a", "b", "f", "2">>

----------------------------------------------------------------------------
(* RateLimitMiddleware: route rules *)

\* main.py:91-92
DefaultLimit == 100
DefaultWindow == 60

\* RateLimitConfig(requests, window): rate_limit.py:21-37
RateLimitConfig(requests, window) == [requests |-> requests, window |-> window]

\* main.py:98-117: the (requests, window) pairs registered
MainConfigs == {RateLimitConfig(10, 60), RateLimitConfig(20, 60),
                RateLimitConfig(5, 3600)}

Patterns == {PatDirectory, PatPublic, PatContact}

RulePaths == Patterns \cup {PathPublicId, PathContactSub, PathFinance}

\* position of a pattern in the dict (insertion order), 0 if absent
IndexOf(rl, pattern) ==
    IF \E i \in 1..Len(rl) : rl[i].pattern = pattern
    THEN CHOOSE i \in 1..Len(rl) : rl[i].pattern = pattern
    ELSE 0

\* rate_limit.py:246: self.route_limits[path_pattern] = RateLimitConfig(...)
\* (a dict keeps the position of a key that is assigned again)
RouteLimitsSet(rl, pattern, config) ==
    LET i == IndexOf(rl, pattern)
        entry == [pattern |-> pattern, config |-> config]
    IN  IF i = 0 THEN Append(rl, entry) ELSE [rl EXCEPT ![i] = entry]

\* rate_limit.py:255-257: the first pattern, in insertion order, that the
\* path starts with; 0 if none
FirstPrefix(rl, path) ==
    LET hits == {i \in 1..Len(rl) : StartsWith(path, rl[i].pattern)}
    IN  IF hits = {} THEN 0 ELSE CHOOSE i \in hits : \A j \in hits : i <= j

\* rate_limit.py:248-260
GetRateLimitConfig(rl, path, default_limit, default_window) ==
    IF IndexOf(rl, path) # 0 THEN rl[IndexOf(rl, path)].config
    ELSE IF FirstPrefix(rl, path) # 0 THEN rl[FirstPrefix(rl, path)].config
    ELSE RateLimitConfig(default_limit, default_window)

----------------------------------------------------------------------------
(* Tenant extraction: app/dependencies/tenant.py *)

\* s.split(sep) for a one-character separator
RECURSIVE SplitFrom(_, _, _, _)
SplitFrom(s, sep, i, cur) ==
    IF i > Len(s) THEN <<cur>>
    ELSE IF s[i] = sep THEN <<cur>> \o SplitFrom(s, sep, i + 1, <<>>)
    ELSE SplitFrom(s, sep, i + 1, Append(cur, s[i]))

Split(s, sep) == SplitFrom(s, sep, 1, <<>>)

\* tenant.py:24-32
HeaderTenantStrategy(request) ==
    IF Truthy(request.x_tenant_id) THEN request.x_tenant_id ELSE None

\* tenant.py:41-51
SubdomainTenantStrategy(request) ==
    LET parts == Split(request.host, ".")
    IN  IF Len(parts) >= 3 THEN parts[1] ELSE None

\* "finance"
StrFinance ==
    <<"f", "i", "n", "a", "n", "c", "e">>

\* a path strategy that does not take the finance module for a tenant
PathTenantStrategySkipFinance(request) ==
    LET parts == Split(request.path, "/")
    IN  IF Len(parts) >= 3 /\ parts[2] = StrApi
        THEN IF parts[3] # <<>> /\ ~StartsWith(parts[3], <<"_">>)
                /\ parts[3] # StrFinance
             THEN parts[3] ELSE None
        ELSE None

\* tenant.py:60-71
PathTenantStrategy(request) ==
    LET parts == Split(request.path, "/")
    IN  IF Len(parts) >= 3 /\ parts[2] = StrApi
        THEN IF parts[3] # <<>> /\ ~StartsWith(parts[3], <<"_">>)
             THEN parts[3] ELSE None
        ELSE None

\* tenant.py:80-86: getattr(request.state, "tenant_id", None)
JWTTenantStrategy(request) ==
    IF Truthy(request.state_tenant_id) THEN request.state_tenant_id ELSE None

\* a strategy list that tries the subdomain before the header
StrategiesSubdomainFirst == <<"subdomain", "header", "path", "jwt">>

\* tenant.py:108-113
Strategies == <<"header", "subdomain", "path", "jwt">>

\* tenant.py:117-120
RunStrategy(name, request) ==
    CASE name = "header" -> HeaderTenantStrategy(request)
      [] name = "subdomain" -> SubdomainTenantStrategy(request)
      [] name = "path" -> PathTenantStrategy(request)
      [] name = "jwt" -> JWTTenantStrategy(request)

\* tenant.py:116-127: the loop from strategy i on; the result and the
\* strategies consulted
RECURSIVE ExtractFrom(_, _, _)
ExtractFrom(request, i, consulted) ==
    IF i > Len(Strategies)
    THEN [tenant_id |-> None, consulted |-> consulted]
    ELSE LET tenant_id == RunStrategy(Strategies[i], request)
             seen == Append(consulted, Strategies[i])
         IN  IF Truthy(tenant_id)
             THEN [tenant_id |-> tenant_id, consulted |-> seen]
             ELSE ExtractFrom(request, i + 1, seen)

\* tenant.py:90-127
extract_tenant_id_from_request(request) == ExtractFrom(request, 1, <<>>)

HeaderValues == {None, <<>>, StrT1}
Hosts == {<<>>, HostLocal, HostTwoLabels, HostT2, HostEmptyLabel}
TenantPaths == {PathRoot, PathHealth, PathApiT3, PathInternal, PathFinance}
StateValues == {None, StrT4}

TenantRequests ==
    [x_tenant_id : HeaderValues, host : Hosts, path : TenantPaths,
     state_tenant_id : StateValues]

----------------------------------------------------------------------------
(* RateLimitMiddleware: keys *)

\* s.strip(): leading and trailing spaces removed
RECURSIVE LStrip(_)
LStrip(s) == IF s # <<>> /\ Head(s) = " " THEN LStrip(Tail(s)) ELSE s

RECURSIVE RStrip(_)
RStrip(s) ==
    IF s # <<>> /\ s[Len(s)] = " " THEN RStrip(SubSeq(s, 1, Len(s) - 1)) ELSE s

Strip(s) == RStrip(LStrip(s))

\* rate_limit.py:39-47
DefaultKeyFunc(request) ==
    LET client_ip == IF Truthy(request.forwarded)
                     THEN Strip(Split(request.forwarded, ",")[1])
                     ELSE IF request.client_host # None
                          THEN request.client_host ELSE StrUnknown
    IN  StrRateLimit \o client_ip

\* rate_limit.py:273: md5(path)[:8], tabulated for the paths of the model
Md5Hex8(path) ==
    CASE path = PathHealth -> Md5Health
      [] path = PathPublicId -> Md5PublicId
      [] path = PathFinance -> Md5Finance
      [] path = PfxApiOpenapi -> Md5ApiOpenapi
      [] path = PathPublicOther -> Md5PublicOther

\* rate_limit.py:262-275
GenerateKey(request) ==
    LET base_key == DefaultKeyFunc(request)
        with_tenant == IF Truthy(request.x_tenant_id)
                       THEN base_key \o StrTenantSep \o request.x_tenant_id
                       ELSE base_key
    IN  with_tenant \o StrPathSep \o Md5Hex8(request.path)

\* main.py:93
ExemptPaths == <<PathHealth, PfxDocs, PfxRedoc, PfxOpenapi, PfxApiDocs, PfxApiRedoc>>

\* middleware/tenant.py:36-44
ExcludePaths ==
    <<PathHealth, PfxDocs, PfxRedoc, PfxOpenapi, PfxApiDocs, PfxApiRedoc,
      PfxApiOpenapi>>

\* any(path.startswith(p) for p in prefixes)
AnyPrefix(path, prefixes) ==
    \E i \in 1..Len(prefixes) : StartsWith(path, prefixes[i])

----------------------------------------------------------------------------
(* RedisRateLimiter: the store.  A sorted set maps members to scores; the *)
(* limiter adds the member str(current_time) with score current_time, so   *)
(* a sorted set is the set of its scores.                                  *)

NoTtl == -1

\* the scores of a key (a missing key is an empty sorted set)
ZScores(rd, key) == IF key \in DOMAIN rd THEN rd[key].z ELSE {}

\* ZREMRANGEBYSCORE key lo hi (an emptied sorted set is deleted)
Zremrangebyscore(rd, key, lo, hi) ==
    LET z == {t \in ZScores(rd, key) : ~(lo <= t /\ t <= hi)}
    IN  IF key \notin DOMAIN rd THEN rd
        ELSE IF z = {} THEN DictDel(rd, key)
        ELSE DictSet(rd, key, [rd[key] EXCEPT !.z = z])

\* ZCARD key
Zcard(rd, key) == Cardinality(ZScores(rd, key))

\* ZADD key score member, with member = str(score)
Zadd(rd, key, score) ==
    DictSet(rd, key, [z |-> ZScores(rd, key) \cup {score},
                      ttl |-> IF key \in DOMAIN rd THEN rd[key].ttl ELSE NoTtl])

\* EXPIRE key seconds, executed at server time t
Expire(rd, key, seconds, t) ==
    IF key \in DOMAIN rd
    THEN DictSet(rd, key, [rd[key] EXCEPT !.ttl = t + seconds * TicksPerSecond])
    ELSE rd

\* ZRANGE key 0 0 WITHSCORES: the scores of the first element, if any
ZrangeFirst(rd, key) ==
    LET z == ZScores(rd, key)
    IN  IF z = {} THEN <<>> ELSE <<CHOOSE m \in z : \A t \in z : m <= t>>

\* rate_limit.py:150-158
RedisRetryAfter(is_allowed, oldest, current_time, window) ==
    IF ~is_allowed
    THEN IF oldest # <<>>
         THEN IntTrunc(window * TicksPerSecond - (current_time - oldest[1]),
                       TicksPerSecond) + 1
         ELSE window
    ELSE 0

----------------------------------------------------------------------------
(* Direct use of the in-memory limiter: SpecLimiter *)

KeyA == <<"a">>
KeyB == <<"b">>
LimKeys == {KeyA, KeyB}

NoResolved == [path |-> None, rules |-> <<>>, config |-> RateLimitConfig(0, 0)]

\* the variables of the other components, at rest
LimiterIdle ==
    /\ now = 0
    /\ storage = <<>>
    /\ rule = [limit |-> 1, window |-> 1]
    /\ hist = <<>>
    /\ last = None
    /\ nops = 0

RulesIdle ==
    /\ route_limits = <<>>
    /\ resolved = NoResolved

NoExtract == [tenant_id |-> None, consulted |-> <<>>]

\* no exception, and no tenant dependency called yet
NoExc == [class |-> "none", status_code |-> 0]
\* None where an Optional[TenantContext] is expected
NoTenantContext ==
    [tenant_id |-> None, tenant_name |-> "", domain |-> "", is_active |-> FALSE,
     settings |-> <<>>]
NoDep == [op |-> "none", arg |-> None, raised |-> FALSE, exc |-> NoExc,
          value |-> NoTenantContext, validated |-> <<>>,
          state_tenant_context |-> NoTenantContext]

TenantIdle ==
    /\ treq = None
    /\ tres = NoExtract
    /\ tdep = NoDep

\* no token: None where an Optional[str] token is expected
NoPayload == [sub |-> None, email |-> None, role |-> None, exp |-> 0, iat |-> 0,
              type |-> "none"]
NoSignature == [key |-> "none", over |-> NoPayload]
NoToken == [kind |-> "None", payload |-> NoPayload, signature |-> NoSignature]

\* no request to authenticate yet, and no outcome
NoAuthRequest == [credentials |-> NoToken, auth_token |-> NoToken, token |-> NoToken]
NoAuthExc == [class |-> "none", status_code |-> 0, detail |-> "", headers |-> <<>>]
NoTokenData == [user_id |-> None, email |-> None, role |-> None, exp |-> 0]
NoAuth == [op |-> "none", token |-> NoToken, token_type |-> "none", at |-> 0,
           raised |-> FALSE, exc |-> NoAuthExc, value |-> NoTokenData,
           verified |-> <<>>]

\* schemas.py:8-15: the values of UserRole
\* "admin"
RoleAdmin ==
    <<"a", "d", "m", "i", "n">>
\* "manager"
RoleManager ==
    <<"m", "a", "n", "a", "g", "e", "r">>
\* "finance"
RoleFinance ==
    <<"f", "i", "n", "a", "n", "c", "e">>
\* "inventory"
RoleInventory ==
    <<"i", "n", "v", "e", "n", "t", "o", "r", "y">>
\* "hr"
RoleHr ==
    <<"h", "r">>
\* "sales"
RoleSales ==
    <<"s", "a", "l", "e", "s">>
\* "viewer"
RoleViewer ==
    <<"v", "i", "e", "w", "e", "r">>
UserRoleValues ==
    {RoleAdmin, RoleManager, RoleFinance, RoleInventory, RoleHr, RoleSales,
     RoleViewer}

\* a role outside UserRole, a user id and an e-mail address
\* "root"
RoleRoot ==
    <<"r", "o", "o", "t">>
\* "u1"
StrUserId ==
    <<"u", "1">>
\* "a@b.c"
StrEmail ==
    <<"a", "@", "b", ".", "c">>

\* schemas.py:18-48: the values of Permission, in the order of list(Permission)
Permissions ==
    <<"view_finance", "create_finance", "edit_finance", "delete_finance",
      "approve_finance",
      "view_inventory", "create_inventory", "edit_inventory", "delete_inventory",
      "view_hr", "create_hr", "edit_hr", "delete_hr",
      "view_sales", "create_sales", "edit_sales", "delete_sales",
      "manage_users", "manage_roles", "view_reports", "system_settings">>

\* the elements of a list
Range(list) == {list[i] : i \in DOMAIN list}

\* a map in which the viewer has no permission and the admin lacks
\* system_settings
RolePermissionsIncomplete ==
    [role \in UserRoleValues |->
        CASE role = RoleAdmin -> SubSeq(Permissions, 1, Len(Permissions) - 1)
          [] role = RoleManager ->
               <<"view_finance", "view_inventory", "view_hr", "view_sales",
               "view_reports", "create_finance", "create_inventory",
               "edit_finance", "edit_inventory">>
          [] role = RoleFinance ->
               <<"view_finance", "create_finance", "edit_finance",
               "delete_finance", "approve_finance">>
          [] role = RoleInventory ->
               <<"view_inventory", "create_inventory", "edit_inventory",
               "delete_inventory">>
          [] role = RoleHr ->
               <<"view_hr", "create_hr", "edit_hr", "delete_hr">>
          [] role = RoleSales ->
               <<"view_sales", "create_sales", "edit_sales", "delete_sales">>
          [] role = RoleViewer ->
               <<>>]

\* dependencies.py:18-48
ROLE_PERMISSIONS ==
    [role \in UserRoleValues |->
        CASE role = RoleAdmin -> Permissions
          [] role = RoleManager ->
               <<"view_finance", "view_inventory", "view_hr", "view_sales",
               "view_reports", "create_finance", "create_inventory",
               "edit_finance", "edit_inventory">>
          [] role = RoleFinance ->
               <<"view_finance", "create_finance", "edit_finance",
               "delete_finance", "approve_finance">>
          [] role = RoleInventory ->
               <<"view_inventory", "create_inventory", "edit_inventory",
               "delete_inventory">>
          [] role = RoleHr ->
               <<"view_hr", "create_hr", "edit_hr", "delete_hr">>
          [] role = RoleSales ->
               <<"view_sales", "create_sales", "edit_sales", "delete_sales">>
          [] role = RoleViewer ->
               <<"view_finance", "view_inventory", "view_hr", "view_sales">>]

\* no request to a protected route yet
NoRoute ==
    [op |-> "none", request |-> NoAuthRequest,
     status_code |-> 0, headers |-> <<>>, handler_calls |-> 0,
     guard |-> NoAuth, tenant_dep |-> NoDep,
     current_user |-> NoTokenData, tenant |-> NoTenantContext]

AuthIdle ==
    /\ utcnow = 0
    /\ tz = 0
    /\ tok = NoToken
    /\ areq = NoAuthRequest
    /\ ares = NoAuth
    /\ role_permissions = ROLE_PERMISSIONS
    /\ rres = NoRoute

PipeIdle ==
    /\ redis = <<>>
    /\ use_async = FALSE
    /\ stack = <<>>
    /\ reqs = <<>>
    /\ arrived = 0

NoResult == [op |-> "none", key |-> None, allowed |-> FALSE,
             info |-> Info(0, 0, FALSE, 0, 1, 0)]

InitLimiter ==
    /\ now = 0
    /\ storage = <<>>
    /\ rule \in [limit : Limits, window : Windows]
    /\ hist = [k \in LimKeys |-> <<>>]
    /\ last = NoResult
    /\ nops = 0
    /\ RulesIdle
    /\ TenantIdle
    /\ PipeIdle
    /\ AuthIdle

\* the clock advances (observed only while an operation can still follow)
Tick ==
    /\ now < MaxTime
    /\ nops < MaxOps
    /\ now' = now + 1
    /\ UNCHANGED <<storage, rule, hist, last, nops, ruleVars, tenVars, pipeVars, authVars>>

\* limiter.is_allowed(key, limit, window) with the key's rule
CallIsAllowed(key) ==
    /\ nops < MaxOps
    /\ nops' = nops + 1
    /\ LET r == MemIsAllowed(storage, key, rule.limit, rule.window, now)
       IN  /\ storage' = r.storage
           /\ hist' = [hist EXCEPT ![key] =
                            Append(@, [op |-> "is_allowed", t |-> now, ok |-> r.allowed])]
           /\ last' = [op |-> "is_allowed", key |-> key, allowed |-> r.allowed,
                       info |-> r.info]
    /\ UNCHANGED <<now, rule, ruleVars, tenVars, pipeVars, authVars>>

\* limiter.reset(key)
CallReset(key) ==
    /\ nops < MaxOps
    /\ nops' = nops + 1
    /\ storage' = MemReset(storage, key)
    /\ hist' = [hist EXCEPT ![key] = Append(@, [op |-> "reset", t |-> now, ok |-> FALSE])]
    /\ last' = [NoResult EXCEPT !.op = "reset", !.key = key]
    /\ UNCHANGED <<now, rule, ruleVars, tenVars, pipeVars, authVars>>

NextLimiter ==
    \/ Tick
    \/ \E key \in LimKeys : CallIsAllowed(key)
    \/ \E key \in LimKeys : CallReset(key)

SpecLimiter == InitLimiter /\ [][NextLimiter]_vars

----------------------------------------------------------------------------
(* The two backends side by side, one call after the other: SpecBackends *)

\* the store as a command sees it at time t: a key whose expiry time has
\* come is gone
Unexpired(rd, t) ==
    [k \in {key \in DOMAIN rd : rd[key].ttl = NoTtl \/ t < rd[key].ttl} |-> rd[k]]

\* rate_limit.py:125-167, without other calls in between: the new store,
\* the decision and the info
RedisIsAllowed(rd, key, limit, window, current_time) ==
    LET pruned == Zremrangebyscore(Unexpired(rd, current_time), key, 0,
                                   current_time - window * TicksPerSecond)
        request_count == Zcard(pruned, key)
        is_allowed == request_count < limit
        new == IF is_allowed
               THEN Expire(Zadd(pruned, key, current_time), key, window,
                           current_time)
               ELSE pruned
        oldest == ZrangeFirst(new, key)
    IN  [redis |-> new,
         allowed |-> is_allowed,
         info |-> Info(limit, request_count, is_allowed, current_time, window,
                       RedisRetryAfter(is_allowed, oldest, current_time,
                                       window))]

\* rate_limit.py:169-171: DEL key
RedisReset(rd, key) == IF key \in DOMAIN rd THEN DictDel(rd, key) ELSE rd

\* rate_limit.py:214-220: the limiter is the in-memory or the Redis one; the
\* model runs both on the same calls, with limits from 0 on
InitBackends ==
    /\ now = 0
    /\ storage = <<>>
    /\ rule \in [limit : 0..MaxLimit, window : Windows]
    /\ hist = [k \in LimKeys |-> <<>>]
    /\ last = NoResult
    /\ nops = 0
    /\ RulesIdle
    /\ TenantIdle
    /\ PipeIdle
    /\ AuthIdle

\* is_allowed(key, limit, window) of both backends at the same clock value
BackendsIsAllowed(key) ==
    /\ nops < MaxOps
    /\ nops' = nops + 1
    /\ LET r == MemIsAllowed(storage, key, rule.limit, rule.window, now)
           a == RedisIsAllowed(redis, key, rule.limit, rule.window, now)
       IN  /\ storage' = r.storage
           /\ redis' = a.redis
           /\ hist' = [hist EXCEPT ![key] =
                            Append(@, [op |-> "is_allowed", t |-> now, ok |-> r.allowed])]
           /\ last' = [op |-> "is_allowed", key |-> key, allowed |-> r.allowed,
                       info |-> r.info, redis_allowed |-> a.allowed,
                       redis_info |-> a.info]
    /\ UNCHANGED <<now, rule, ruleVars, tenVars, use_async, stack, reqs,
                   arrived, authVars>>

\* reset(key) of both backends
BackendsReset(key) ==
    /\ nops < MaxOps
    /\ nops' = nops + 1
    /\ storage' = MemReset(storage, key)
    /\ redis' = RedisReset(redis, key)
    /\ hist' = [hist EXCEPT ![key] = Append(@, [op |-> "reset", t |-> now, ok |-> FALSE])]
    /\ last' = [NoResult EXCEPT !.op = "reset", !.key = key]
    /\ UNCHANGED <<now, rule, ruleVars, tenVars, use_async, stack, reqs,
                   arrived, authVars>>

NextBackends ==
    \/ Tick
    \/ \E key \in LimKeys : BackendsIsAllowed(key)
    \/ \E key \in LimKeys : BackendsReset(key)

SpecBackends == InitBackends /\ [][NextBackends]_vars

----------------------------------------------------------------------------
(* Reading the history *)

\* index of the last reset in a key's history, 0 if none
LastResetAt(h) ==
    LET rs == {i \in 1..Len(h) : h[i].op = "reset"}
    IN  IF rs = {} THEN 0 ELSE CHOOSE i \in rs : \A j \in rs : j <= i

\* the is_allowed calls made since the key's last reset
SinceReset(h) == SubSeq(h, LastResetAt(h) + 1, Len(h))

\* a limiter that only ever sees the operations of one key
RECURSIVE Replay(_, _, _)
Replay(h, key, n) ==
    IF n = 0 THEN [storage |-> <<>>, agree |-> TRUE]
    ELSE LET prev == Replay(h, key, n - 1)
             e == h[n]
         IN  IF e.op = "reset"
             THEN [storage |-> MemReset(prev.storage, key), agree |-> prev.agree]
             ELSE LET r == MemIsAllowed(prev.storage, key, rule.limit,
                                        rule.window, e.t)
                  IN  [storage |-> r.storage,
                       agree |-> prev.agree /\ r.allowed = e.ok]

----------------------------------------------------------------------------
(* Claims checked under SpecLimiter *)

\* C1: with limit L >= 1 and window W, the calls for one key since its creation
\* (or last reset) form a sliding window: while the calls made so far all lie
\* inside one window the first L are admitted and the L-th reports
\* remaining = 0; a call that finds L admitted timestamps still inside the
\* window is rejected with retry_after > 0; a call made when the window has
\* fully elapsed since every admitted call is admitted again.
C1_SlidingWindow ==
    (last.op = "is_allowed" /\ rule.limit >= 1) =>
        LET h == SinceReset(hist[last.key])
            n == Len(h)
            W == rule.window * TicksPerSecond
            inside == {i \in 1..(n - 1) : h[i].ok /\ h[n].t - h[i].t < W}
        IN  /\ (n <= rule.limit /\ h[n].t - h[1].t < W) =>
                   /\ last.allowed
                   /\ (n = rule.limit => last.info.remaining = 0)
            /\ Cardinality(inside) >= rule.limit =>
                   (~last.allowed /\ last.info.retry_after > 0)
            /\ inside = {} => last.allowed

\* C1 witness: a key was admitted up to its limit, then rejected, then admitted
\* again after the window elapsed
C1_Witness ==
    /\ last.op = "is_allowed"
    /\ last.allowed
    /\ rule.limit >= 1
    /\ LET h == SinceReset(hist[last.key])
       IN  /\ Len(h) = rule.limit + 2
           /\ ~h[rule.limit + 1].ok
           /\ \A i \in 1..rule.limit : h[i].ok

\* C9: records are isolated per key: the record of every key, and the outcome
\* of each of its calls, is what a limiter that saw only that key's operations
\* would hold; reset(a) removes a's record, and the first is_allowed(a) after a
\* reset with limit >= 1 is admitted with remaining = limit - 1.
C9_KeyIsolation ==
    /\ \A b \in LimKeys :
          LET own == Replay(hist[b], b, Len(hist[b]))
          IN  /\ own.agree
              /\ (b \in DOMAIN storage) = (b \in DOMAIN own.storage)
              /\ b \in DOMAIN storage => storage[b] = own.storage[b]
    /\ last.op = "reset" => last.key \notin DOMAIN storage
    /\ (last.op = "is_allowed" /\ rule.limit >= 1
          /\ LastResetAt(hist[last.key]) = Len(hist[last.key]) - 1) =>
              (last.allowed /\ last.info.remaining = rule.limit - 1)

\* C9 witness: a and b both hold timestamps, a was reset and then called again
C9_Witness ==
    /\ last.op = "is_allowed"
    /\ last.key = KeyA
    /\ rule.limit >= 1
    /\ LastResetAt(hist[KeyA]) = Len(hist[KeyA]) - 1
    /\ LastResetAt(hist[KeyA]) >= 2
    /\ KeyB \in DOMAIN storage
    /\ storage[KeyB] # <<>>


\* ceil(n / d) for d > 0
CeilDiv(n, d) == (n + d - 1) \div d

\* the clock values of the admitted calls in a key's history since its last
\* reset
AdmittedTimes(h) ==
    LET admitted == SelectSeq(SinceReset(h), LAMBDA e : e.op = "is_allowed" /\ e.ok)
    IN  [i \in 1..Len(admitted) |-> admitted[i].t]

\* C26: right after every is_allowed call made with a fixed (limit, window)
\* the key's record holds at most `limit` timestamps, every one of them inside
\* [now - window, now], and they are exactly the times of the admitted calls
\* still inside the window: a rejected call adds none, so the oldest
\* timestamp, which decides when the key is admitted again, is never moved
\* by a rejection.
C26_RecordBounded ==
    last.op = "is_allowed" =>
        LET ts == storage[last.key]
            current_time == hist[last.key][Len(hist[last.key])].t
        IN  /\ Len(ts) <= rule.limit
            /\ \A i \in 1..Len(ts) :
                  /\ current_time - rule.window * TicksPerSecond <= ts[i]
                  /\ ts[i] <= current_time
            /\ ts = Prune(AdmittedTimes(hist[last.key]), current_time, rule.window)

\* a rejected call made after an earlier rejection of the same key, with the
\* record full and unchanged by either
C26_Witness ==
    /\ last.op = "is_allowed"
    /\ ~last.allowed
    /\ Len(storage[last.key]) = rule.limit
    /\ LET h == hist[last.key]
       IN  /\ Len(h) >= 3
           /\ h[Len(h) - 1].op = "is_allowed"
           /\ ~h[Len(h) - 1].ok
           /\ h[Len(h) - 1].t < h[Len(h)].t

\* C25: at every step of a sequence of is_allowed and reset calls with a
\* non-decreasing clock (several calls at one clock value and limit = 0
\* included) the in-memory and the Redis backend return the same decision
\* and the same info.
C25_BackendsAgree ==
    last.op = "is_allowed" =>
        /\ last.allowed = last.redis_allowed
        /\ last.info = last.redis_info

\* C24: a rejected is_allowed call reports retry_after =
\* ceil(window - (now - oldest retained timestamp)), also when that
\* difference is a whole number of seconds; an admitted call reports 0; and
\* remaining = max(0, limit - count - (1 if allowed else 0)) with count the
\* number of timestamps retained after pruning.
C24_RetryAfterIsCeiling ==
    last.op = "is_allowed" =>
        LET ts == storage[last.key]
            count == IF last.allowed THEN Len(ts) - 1 ELSE Len(ts)
            current_time == hist[last.key][Len(hist[last.key])].t
        IN  /\ last.allowed => last.info.retry_after = 0
            /\ (~last.allowed /\ ts # <<>>) =>
                  last.info.retry_after =
                      CeilDiv(rule.window * TicksPerSecond
                                  - (current_time - MinOf(ts)),
                              TicksPerSecond)
            /\ last.info.remaining =
                  Max(0, rule.limit - count - (IF last.allowed THEN 1 ELSE 0))

----------------------------------------------------------------------------
(* The middleware stack of main.py and the requests passing through it *)

\* Starlette's add_middleware: user_middleware.insert(0, ...); the stack is
\* built so that the first entry of user_middleware is the outermost
AddMiddleware(user_middleware, cls) == <<cls>> \o user_middleware

\* main.py:119-139, in the order of the add_middleware calls
MainStack ==
    AddMiddleware(
        AddMiddleware(
            AddMiddleware(
                AddMiddleware(<<>>, "RateLimitMiddleware"),
                "TenantIsolationMiddleware"),
            "TenantMiddleware"),
        "CORSMiddleware")

\* rate_limit.py:332
RateLimitBody == "{\"detail\":\"Rate limit exceeded. Please try again later.\"}"

NoRl == [key |-> None, config |-> RateLimitConfig(0, 0), current_time |-> 0,
         request_count |-> 0, outcome |-> "none", headers |-> <<>>]

NoResponse == [status |-> 0, headers |-> <<>>, body |-> ""]

\* a request as received: its inputs, and nothing done yet
NewRequest(input) ==
    [path |-> input.path, x_tenant_id |-> input.x_tenant_id,
     host |-> input.host, forwarded |-> input.forwarded,
     client_host |-> input.client_host,
     state_tenant_id |-> None,
     phase |-> "down", pos |-> 1,
     rl |-> NoRl, response |-> NoResponse, handler_calls |-> 0, log |-> <<>>]

IdleRequest ==
    [NewRequest([path |-> PathRoot, x_tenant_id |-> None, host |-> <<>>,
                 forwarded |-> None, client_host |-> None])
        EXCEPT !.phase = "idle"]

\* the requests of the model: the health check, a public HR route behind a
\* proxy, a finance route with and without a tenant header
PipeInputs ==
    {[path |-> PathHealth, x_tenant_id |-> None, host |-> HostLocal,
      forwarded |-> None, client_host |-> ClientHost],
     [path |-> PathPublicId, x_tenant_id |-> None, host |-> HostLocal,
      forwarded |-> ForwardedFor, client_host |-> ClientHost],
     [path |-> PathFinance, x_tenant_id |-> StrT1, host |-> HostLocal,
      forwarded |-> None, client_host |-> ClientHost],
     [path |-> PathFinance, x_tenant_id |-> None, host |-> HostT2,
      forwarded |-> None, client_host |-> ClientHost]}

\* the requests sent through the whole stack: those above that are
\* addressed to the host itself, and the OpenAPI schema of main.py:83
\* (openapi_url)
StackInputs ==
    {input \in PipeInputs : input.host = HostLocal} \cup
    {[path |-> PfxApiOpenapi, x_tenant_id |-> None, host |-> HostLocal,
      forwarded |-> None, client_host |-> ClientHost]}

\* call_next(request): on to the next stage
CallNext(req) == [req EXCEPT !.phase = "down", !.pos = @ + 1]

\* return response: back to the stage outside this one
ReturnUp(req) ==
    [req EXCEPT !.phase = IF req.pos = 1 THEN "done" ELSE "up", !.pos = @ - 1]

\* headers[name] = value, for every name of more
SetHeaders(headers, more) ==
    [h \in (DOMAIN headers) \cup (DOMAIN more) |->
        IF h \in DOMAIN more THEN more[h] ELSE headers[h]]

\* rate_limit.py:316-320 (str(int) is one-to-one: the numbers stand for it)
RateLimitHeaders(info) ==
    [h \in {"X-RateLimit-Limit", "X-RateLimit-Remaining", "X-RateLimit-Reset"} |->
        CASE h = "X-RateLimit-Limit" -> info.limit
          [] h = "X-RateLimit-Remaining" -> info.remaining
          [] h = "X-RateLimit-Reset" -> info.reset]

\* a rejection that still calls the handler
RejectAndCallNext(req, info) ==
    CallNext([req EXCEPT !.rl.outcome = "rejected",
                         !.rl.headers = RateLimitHeaders(info),
                         !.log = Append(@, "rate_decision")])

\* rate_limit.py:322-336
Reject(req, info) ==
    ReturnUp([req EXCEPT
        !.rl.outcome = "rejected",
        !.rl.headers = RateLimitHeaders(info),
        !.log = Append(@, "rate_decision"),
        !.response = [status |-> 429,
                      headers |-> SetHeaders(RateLimitHeaders(info),
                                     [h \in {"Retry-After"} |-> info.retry_after]),
                      body |-> RateLimitBody]])

\* rate_limit.py:338-339
Admit(req, info) ==
    CallNext([req EXCEPT !.rl.outcome = "allowed",
                         !.rl.headers = RateLimitHeaders(info),
                         !.log = Append(@, "rate_decision")])

\* rate_limit.py:315-339
Decide(req, is_allowed, info) ==
    IF is_allowed THEN Admit(req, info) ELSE Reject(req, info)

\* a limiter error answered with an error response
FailClosed(req) ==
    ReturnUp([req EXCEPT !.rl.outcome = "error",
                         !.log = Append(@, "rate_error"),
                         !.response = [status |-> 500, headers |-> <<>>,
                                       body |-> "error"]])

\* rate_limit.py:310-313
FailOpen(req) ==
    CallNext([req EXCEPT !.rl.outcome = "error",
                         !.log = Append(@, "rate_error")])

\* the history of the decisions made for a key, with the rule applied
RecordCall(h, key, config, t, ok) ==
    DictSet(h, key, Append(IF key \in DOMAIN h THEN h[key] ELSE <<>>,
                           [op |-> "is_allowed", t |-> t, ok |-> ok,
                            limit |-> config.requests, window |-> config.window]))

\* the request is on its way in, at the named middleware
AtDown(r, name) ==
    /\ reqs[r].phase = "down"
    /\ reqs[r].pos <= Len(stack)
    /\ stack[reqs[r].pos] = name

\* the response is on its way out, at the named middleware
AtUp(r, name) ==
    /\ reqs[r].phase = "up"
    /\ stack[reqs[r].pos] = name

pipeFrame == <<rule, last, nops, ruleVars, tenVars, use_async, stack, authVars>>

\* a request is received
Arrive(r, input) ==
    /\ reqs[r].phase = "idle"
    /\ \A q \in 1..(r - 1) : reqs[q].phase # "idle"
    /\ arrived' = arrived + 1
    /\ reqs' = [reqs EXCEPT ![r] = NewRequest(input)]
    /\ UNCHANGED <<now, storage, hist, redis, pipeFrame>>

\* the next request is received after the response to the last one
ArriveNext(r, input) ==
    /\ reqs[r].phase = "done"
    /\ arrived < MaxArrivals
    /\ arrived' = arrived + 1
    /\ reqs' = [reqs EXCEPT ![r] = NewRequest(input)]
    /\ UNCHANGED <<now, storage, hist, redis, pipeFrame>>

\* CORSMiddleware (starlette): a plain request is passed on
CORSDispatch(r) ==
    /\ AtDown(r, "CORSMiddleware")
    /\ reqs' = [reqs EXCEPT ![r] = CallNext(@)]
    /\ UNCHANGED <<now, storage, hist, redis, arrived, pipeFrame>>

\* middleware/tenant.py:57-83
TenantDispatch(r) ==
    /\ AtDown(r, "TenantMiddleware")
    /\ reqs' = [reqs EXCEPT ![r] =
          IF AnyPrefix(@.path, ExcludePaths)
          THEN CallNext(@)
          ELSE LET tenant_id == extract_tenant_id_from_request(@).tenant_id
               IN  CallNext([@ EXCEPT
                       !.state_tenant_id =
                           IF Truthy(tenant_id) THEN tenant_id ELSE @,
                       !.log = Append(@, "tenant_extract")])]
    /\ UNCHANGED <<now, storage, hist, redis, arrived, pipeFrame>>

\* middleware/tenant.py:62-79: the extraction raises; the error is logged
\* and the request goes on
TenantExtractError(r) ==
    /\ AtDown(r, "TenantMiddleware")
    /\ ~AnyPrefix(reqs[r].path, ExcludePaths)
    /\ reqs' = [reqs EXCEPT ![r] =
          CallNext([@ EXCEPT !.log = Append(@, "tenant_error")])]
    /\ UNCHANGED <<now, storage, hist, redis, arrived, pipeFrame>>

\* middleware/tenant.py:116-129
TenantIsolationDispatch(r) ==
    /\ AtDown(r, "TenantIsolationMiddleware")
    /\ reqs' = [reqs EXCEPT ![r] = CallNext(@)]
    /\ UNCHANGED <<now, storage, hist, redis, arrived, pipeFrame>>

\* rate_limit.py:288-339, up to the first await of the Redis backend or,
\* with the in-memory backend, up to call_next or the 429 response
RateLimitDispatch(r) ==
    /\ AtDown(r, "RateLimitMiddleware")
    /\ LET req == reqs[r]
           config == GetRateLimitConfig(route_limits, req.path,
                                        rule.limit, rule.window)
           key == GenerateKey(req)
       IN  IF AnyPrefix(req.path, ExemptPaths)
           THEN /\ reqs' = [reqs EXCEPT ![r] = CallNext([@ EXCEPT !.rl.outcome = "exempt"])]
                /\ UNCHANGED <<storage, hist>>
           ELSE IF use_async
           THEN /\ reqs' = [reqs EXCEPT ![r] =
                      [@ EXCEPT !.phase = "zrem",
                                !.rl = [NoRl EXCEPT !.key = key, !.config = config,
                                                    !.current_time = now]]]
                /\ UNCHANGED <<storage, hist>>
           ELSE LET res == MemIsAllowed(storage, key, config.requests,
                                        config.window, now)
                IN  /\ storage' = res.storage
                    /\ hist' = RecordCall(hist, key, config, now, res.allowed)
                    /\ reqs' = [reqs EXCEPT ![r] =
                          Decide([@ EXCEPT !.rl = [NoRl EXCEPT !.key = key,
                                                    !.config = config,
                                                    !.current_time = now]],
                                 res.allowed, res.info)]
    /\ UNCHANGED <<now, redis, arrived, pipeFrame>>

\* rate_limit.py:137
RedisZremStep(r) ==
    /\ reqs[r].phase = "zrem"
    /\ LET rl == reqs[r].rl
       IN  redis' = Zremrangebyscore(redis, rl.key, 0,
                        rl.current_time - rl.config.window * TicksPerSecond)
    /\ reqs' = [reqs EXCEPT ![r].phase = "zcard"]
    /\ UNCHANGED <<now, storage, hist, arrived, pipeFrame>>

\* rate_limit.py:140-144
RedisZcardStep(r) ==
    /\ reqs[r].phase = "zcard"
    /\ LET rl == reqs[r].rl
           request_count == Zcard(redis, rl.key)
           is_allowed == request_count < rl.config.requests
       IN  /\ reqs' = [reqs EXCEPT ![r].rl.request_count = request_count,
                                   ![r].phase = IF is_allowed THEN "zadd" ELSE "zrange"]
           /\ hist' = RecordCall(hist, rl.key, rl.config, rl.current_time, is_allowed)
    /\ UNCHANGED <<now, storage, redis, arrived, pipeFrame>>

\* rate_limit.py:146
RedisZaddStep(r) ==
    /\ reqs[r].phase = "zadd"
    /\ redis' = Zadd(redis, reqs[r].rl.key, reqs[r].rl.current_time)
    /\ reqs' = [reqs EXCEPT ![r].phase = "expire"]
    /\ UNCHANGED <<now, storage, hist, arrived, pipeFrame>>

\* rate_limit.py:147, 157-167 and 315-339
RedisExpireStep(r) ==
    /\ reqs[r].phase = "expire"
    /\ LET rl == reqs[r].rl
       IN  /\ redis' = Expire(redis, rl.key, rl.config.window, now)
           /\ reqs' = [reqs EXCEPT ![r] =
                 Decide(@, TRUE,
                        Info(rl.config.requests, rl.request_count, TRUE,
                             rl.current_time, rl.config.window,
                             RedisRetryAfter(TRUE, <<>>, rl.current_time,
                                             rl.config.window)))]
    /\ UNCHANGED <<now, storage, hist, arrived, pipeFrame>>

\* rate_limit.py:150-167 and 315-336
RedisZrangeStep(r) ==
    /\ reqs[r].phase = "zrange"
    /\ LET rl == reqs[r].rl
           oldest == ZrangeFirst(redis, rl.key)
       IN  reqs' = [reqs EXCEPT ![r] =
               Decide(@, FALSE,
                      Info(rl.config.requests, rl.request_count, FALSE,
                           rl.current_time, rl.config.window,
                           RedisRetryAfter(FALSE, oldest, rl.current_time,
                                           rl.config.window)))]
    /\ UNCHANGED <<now, storage, hist, redis, arrived, pipeFrame>>

\* rate_limit.py:310-313: an awaited store operation raises
RedisError(r) ==
    /\ reqs[r].phase \in {"zrem", "zcard", "zadd", "expire", "zrange"}
    /\ reqs' = [reqs EXCEPT ![r] = FailOpen(@)]
    /\ UNCHANGED <<now, storage, hist, redis, arrived, pipeFrame>>

\* the store deletes a key whose expiry time has come
RedisKeyExpiry(key) ==
    /\ key \in DOMAIN redis
    /\ redis[key].ttl # NoTtl
    /\ now >= redis[key].ttl
    /\ redis' = DictDel(redis, key)
    /\ UNCHANGED <<now, storage, hist, reqs, arrived, pipeFrame>>

\* the route handler behind the innermost middleware
RouteHandler(r) ==
    /\ reqs[r].phase = "down"
    /\ reqs[r].pos = Len(stack) + 1
    /\ reqs' = [reqs EXCEPT ![r] =
          ReturnUp([@ EXCEPT !.handler_calls = @ + 1,
                             !.log = Append(@, "handler"),
                             !.response = [status |-> 200, headers |-> <<>>,
                                           body |-> "handler"]])]
    /\ UNCHANGED <<now, storage, hist, redis, arrived, pipeFrame>>

\* rate_limit.py:292, 313, 339-345: after call_next
RateLimitReturn(r) ==
    /\ AtUp(r, "RateLimitMiddleware")
    /\ reqs' = [reqs EXCEPT ![r] =
          ReturnUp(IF @.rl.outcome = "allowed"
                   THEN [@ EXCEPT !.response.headers = SetHeaders(@, reqs[r].rl.headers)]
                   ELSE @)]
    /\ UNCHANGED <<now, storage, hist, redis, arrived, pipeFrame>>

\* a middleware that never echoes the tenant id
TenantReturnNoHeader(r) ==
    /\ AtUp(r, "TenantMiddleware")
    /\ reqs' = [reqs EXCEPT ![r] = ReturnUp(@)]
    /\ UNCHANGED <<now, storage, hist, redis, arrived, pipeFrame>>

\* middleware/tenant.py:59, 83-89: after call_next
TenantReturn(r) ==
    /\ AtUp(r, "TenantMiddleware")
    /\ reqs' = [reqs EXCEPT ![r] =
          ReturnUp(IF ~AnyPrefix(@.path, ExcludePaths) /\ @.state_tenant_id # None
                   THEN [@ EXCEPT !.response.headers =
                            SetHeaders(@, [h \in {"X-Tenant-ID"} |-> reqs[r].state_tenant_id])]
                   ELSE @)]
    /\ UNCHANGED <<now, storage, hist, redis, arrived, pipeFrame>>

\* middleware/tenant.py:129-130 and CORSMiddleware: the response is returned
PassReturn(r) ==
    /\ \/ AtUp(r, "TenantIsolationMiddleware")
       \/ AtUp(r, "CORSMiddleware")
    /\ reqs' = [reqs EXCEPT ![r] = ReturnUp(@)]
    /\ UNCHANGED <<now, storage, hist, redis, arrived, pipeFrame>>

\* the clock advances
PipeTick ==
    /\ now < MaxPipeTime
    /\ \E r \in DOMAIN reqs : reqs[r].phase # "done"
    /\ now' = now + 1
    /\ UNCHANGED <<storage, hist, redis, reqs, arrived, pipeFrame>>

----------------------------------------------------------------------------
(* One request at a time through the stack of main.py: SpecPipe *)

\* a rule registered for the public HR routes and the default rule, scaled
\* to the clock of the model
PipeRouteLimits == <<[pattern |-> PatPublic, config |-> RateLimitConfig(1, 1)]>>
PipeDefaultRule == [limit |-> 2, window |-> 1]

InitPipeline(middlewares, slots, backends) ==
    /\ now = 0
    /\ storage = <<>>
    /\ rule = PipeDefaultRule
    /\ hist = <<>>
    /\ last = None
    /\ nops = 0
    /\ route_limits = PipeRouteLimits
    /\ resolved = NoResolved
    /\ TenantIdle
    /\ AuthIdle
    /\ redis = <<>>
    /\ use_async \in backends
    /\ stack = middlewares
    /\ reqs = [r \in 1..slots |-> IdleRequest]
    /\ arrived = 0

InitPipe == InitPipeline(MainStack, 1, BOOLEAN)

NextPipe ==
    \/ \E r \in DOMAIN reqs, input \in StackInputs : Arrive(r, input)
    \/ \E r \in DOMAIN reqs, input \in StackInputs : ArriveNext(r, input)
    \/ \E r \in DOMAIN reqs : CORSDispatch(r)
    \/ \E r \in DOMAIN reqs : TenantDispatch(r)
    \/ \E r \in DOMAIN reqs : TenantExtractError(r)
    \/ \E r \in DOMAIN reqs : TenantIsolationDispatch(r)
    \/ \E r \in DOMAIN reqs : RateLimitDispatch(r)
    \/ \E r \in DOMAIN reqs : RedisZremStep(r)
    \/ \E r \in DOMAIN reqs : RedisZcardStep(r)
    \/ \E r \in DOMAIN reqs : RedisZaddStep(r)
    \/ \E r \in DOMAIN reqs : RedisExpireStep(r)
    \/ \E r \in DOMAIN reqs : RedisZrangeStep(r)
    \/ \E r \in DOMAIN reqs : RedisError(r)
    \/ \E key \in DOMAIN redis : RedisKeyExpiry(key)
    \/ \E r \in DOMAIN reqs : RouteHandler(r)
    \/ \E r \in DOMAIN reqs : RateLimitReturn(r)
    \/ \E r \in DOMAIN reqs : TenantReturn(r)
    \/ \E r \in DOMAIN reqs : PassReturn(r)
    \/ PipeTick

SpecPipe == InitPipe /\ [][NextPipe]_vars

----------------------------------------------------------------------------
(* Concurrent requests in RateLimitMiddleware.dispatch with the Redis
   backend: SpecConc; with the in-memory backend of main.py: SpecMem *)

InitConc == InitPipeline(<<"RateLimitMiddleware">>, NumReq, {TRUE})

\* the requests that reach the limiter
ConcInputs == {input \in PipeInputs : ~AnyPrefix(input.path, ExemptPaths)
                                      /\ input.x_tenant_id = None}

NextConc ==
    \/ \E r \in DOMAIN reqs, input \in ConcInputs : Arrive(r, input)
    \/ \E r \in DOMAIN reqs : RateLimitDispatch(r)
    \/ \E r \in DOMAIN reqs : RedisZremStep(r)
    \/ \E r \in DOMAIN reqs : RedisZcardStep(r)
    \/ \E r \in DOMAIN reqs : RedisZaddStep(r)
    \/ \E r \in DOMAIN reqs : RedisExpireStep(r)
    \/ \E r \in DOMAIN reqs : RedisZrangeStep(r)
    \/ \E r \in DOMAIN reqs : RedisError(r)
    \/ \E key \in DOMAIN redis : RedisKeyExpiry(key)
    \/ \E r \in DOMAIN reqs : RouteHandler(r)
    \/ \E r \in DOMAIN reqs : RateLimitReturn(r)
    \/ PipeTick

SpecConc == InitConc /\ [][NextConc]_vars

\* main.py:94: use_redis=False
InitMem == InitPipeline(<<"RateLimitMiddleware">>, NumReq, {FALSE})

NextMem ==
    \/ \E r \in DOMAIN reqs, input \in ConcInputs : Arrive(r, input)
    \/ \E r \in DOMAIN reqs : RateLimitDispatch(r)
    \/ \E r \in DOMAIN reqs : RouteHandler(r)
    \/ \E r \in DOMAIN reqs : RateLimitReturn(r)
    \/ PipeTick

SpecMem == InitMem /\ [][NextMem]_vars

----------------------------------------------------------------------------
(* Claims checked under SpecConc and SpecMem *)

\* the calls recorded for a key all lie inside one window
InOneWindow(h) ==
    \A i, j \in 1..Len(h) : h[i].t - h[j].t < h[j].window * TicksPerSecond

\* the number of admitted calls in a history
Admitted(h) == Cardinality({i \in 1..Len(h) : h[i].ok})

\* the requests admitted for the key of request r whose is_allowed calls were
\* made within one window of r's call
AdmittedWith(r) ==
    {q \in DOMAIN reqs :
        /\ reqs[q].rl.outcome = "allowed"
        /\ reqs[q].rl.key = reqs[r].rl.key
        /\ reqs[q].rl.current_time - reqs[r].rl.current_time
               < reqs[r].rl.config.window * TicksPerSecond
        /\ reqs[r].rl.current_time - reqs[q].rl.current_time
               < reqs[r].rl.config.window * TicksPerSecond}

\* C2: with the Redis backend, whatever the interleaving of the store
\* operations of concurrent is_allowed calls for one key, the calls made
\* within one window admit at most `limit` of them.
C2_RedisNoOverAdmission ==
    use_async =>
        \A r \in DOMAIN reqs :
            reqs[r].rl.outcome = "allowed" =>
                Cardinality(AdmittedWith(r)) <= reqs[r].rl.config.requests

\* C3: with the in-memory backend no request is ever between the count and
\* the append of is_allowed, and of the k calls made for a key within one
\* window exactly min(k, limit) are admitted, each adding one timestamp.
C3_InMemoryAtomic ==
    ~use_async =>
        /\ \A r \in DOMAIN reqs :
              reqs[r].phase \notin {"zrem", "zcard", "zadd", "expire", "zrange"}
        /\ \A key \in DOMAIN hist :
              LET h == hist[key]
                  k == Len(h)
                  m == IF k <= h[1].limit THEN k ELSE h[1].limit
              IN  InOneWindow(h) =>
                      /\ Admitted(h) = m
                      /\ Len(storage[key]) = m

\* C3 witness: two requests for one key in flight at once, the first one
\* admitted and still awaiting its handler, the second one rejected
C3_Witness ==
    /\ ~use_async
    /\ \E r1, r2 \in DOMAIN reqs :
          /\ r1 # r2
          /\ reqs[r1].rl.key = reqs[r2].rl.key
          /\ reqs[r1].rl.outcome = "allowed"
          /\ reqs[r1].phase = "down"
          /\ reqs[r2].rl.outcome = "rejected"
          /\ InOneWindow(hist[reqs[r1].rl.key])
          /\ Len(hist[reqs[r1].rl.key]) = 2

----------------------------------------------------------------------------
(* The record keys of requests to the sub-paths of one rule: SpecKeys *)

\* an X-Forwarded-For value "10.0.0.1:tenant:t1"
ForwardedSpoofed == ForwardedFirst \o StrTenantSep \o StrT1

\* requests to two public HR sub-paths, from a direct client, from clients
\* behind a proxy, with no, an empty and two different X-Tenant-ID headers
KeyInputs ==
    {[path |-> path, x_tenant_id |-> x_tenant_id, host |-> HostLocal,
      forwarded |-> forwarded, client_host |-> ClientHost] :
        path \in {PathPublicId, PathPublicOther},
        x_tenant_id \in {None, <<>>, StrT1, StrT2},
        forwarded \in {None, ForwardedFor, ForwardedFirst, ForwardedSpoofed}}

InitKeys == InitPipeline(<<"RateLimitMiddleware">>, NumReq, {FALSE})

NextKeys ==
    \/ \E r \in DOMAIN reqs, input \in KeyInputs : Arrive(r, input)
    \/ \E r \in DOMAIN reqs : RateLimitDispatch(r)
    \/ \E r \in DOMAIN reqs : RouteHandler(r)
    \/ \E r \in DOMAIN reqs : RateLimitReturn(r)
    \/ PipeTick

SpecKeys == InitKeys /\ [][NextKeys]_vars

\* C27: two requests that differ in client key, in X-Tenant-ID header value
\* or in path are counted under different record keys, also when one prefix
\* rule matches both paths.
C27_KeyPerActorTenantPath ==
    \A r1, r2 \in DOMAIN reqs :
        (/\ reqs[r1].rl.key # None
         /\ reqs[r2].rl.key # None
         /\ \/ DefaultKeyFunc(reqs[r1]) # DefaultKeyFunc(reqs[r2])
            \/ reqs[r1].x_tenant_id # reqs[r2].x_tenant_id
            \/ reqs[r1].path # reqs[r2].path)
        => reqs[r1].rl.key # reqs[r2].rl.key

----------------------------------------------------------------------------
(* Claims checked under SpecPipe *)

\* positions of an event in a request's log
EventAt(log, e) == {i \in 1..Len(log) : log[i] = e}

\* C4: within one request the rate-limit decision is made before
\* TenantMiddleware extracts the tenant, and the tenant is extracted before
\* the route handler runs.
C4_RateLimitOutermost ==
    \A r \in DOMAIN reqs :
        LET log == reqs[r].log
        IN  /\ \A i \in EventAt(log, "tenant_extract") :
                  \E j \in EventAt(log, "rate_decision") \cup EventAt(log, "rate_error") :
                      j < i
            /\ \A i \in EventAt(log, "handler") :
                  \A j \in EventAt(log, "tenant_extract") : j < i

\* C6: when the limiter raises during is_allowed the request fails open: the
\* handler is invoked exactly once, its response is the one returned, and
\* the caller gets neither a 429 nor an error response.
C6_FailOpen ==
    \A r \in DOMAIN reqs :
        reqs[r].rl.outcome = "error" =>
            /\ reqs[r].handler_calls <= 1
            /\ reqs[r].response.status \notin {429, 500}
            /\ reqs[r].phase \in {"up", "done"} =>
                  /\ reqs[r].handler_calls = 1
                  /\ reqs[r].response.status = 200
                  /\ reqs[r].response.body = "handler"

\* C6 witness: a request whose limiter call raised has been answered
C6_Witness ==
    \E r \in DOMAIN reqs :
        /\ reqs[r].rl.outcome = "error"
        /\ reqs[r].phase = "done"
        /\ reqs[r].handler_calls = 1

\* C7: every response to a request on a non-exempt path carries the three
\* X-RateLimit headers, also after a limiter error.
C7_HeadersOnEveryResponse ==
    \A r \in DOMAIN reqs :
        (reqs[r].phase = "done" /\ ~AnyPrefix(reqs[r].path, ExemptPaths)) =>
            {"X-RateLimit-Limit", "X-RateLimit-Remaining", "X-RateLimit-Reset"}
                \subseteq DOMAIN reqs[r].response.headers

\* C8: a request that is_allowed reports as not allowed is answered with
\* status 429, the fixed JSON body and a Retry-After header (beside the
\* X-RateLimit headers), and the handler is never invoked for it.
C8_RejectedBypassesHandler ==
    \A r \in DOMAIN reqs :
        reqs[r].rl.outcome = "rejected" =>
            /\ reqs[r].handler_calls = 0
            /\ EventAt(reqs[r].log, "handler") = {}
            /\ reqs[r].phase \in {"up", "done"}
            /\ reqs[r].response.status = 429
            /\ reqs[r].response.body = RateLimitBody
            /\ "Retry-After" \in DOMAIN reqs[r].response.headers

\* C8 witness: a rejected request has been answered
C8_Witness ==
    \E r \in DOMAIN reqs :
        /\ reqs[r].rl.outcome = "rejected"
        /\ reqs[r].phase = "done"
        /\ reqs[r].response.status = 429


\* the names of the rate-limit response headers
RateLimitHeaderNames ==
    {"X-RateLimit-Limit", "X-RateLimit-Remaining", "X-RateLimit-Reset",
     "Retry-After"}

\* C21: for every request the rate limiter skips it (no key, no record read
\* or written, no rate-limit headers) if and only if the tenant middleware
\* skips it (no tenant extraction).
C21_ExemptInBoth ==
    \A r \in DOMAIN reqs :
        reqs[r].phase = "done" =>
            LET limiter_skips ==
                    /\ reqs[r].rl.outcome = "exempt"
                    /\ reqs[r].rl.key = None
                    /\ RateLimitHeaderNames \cap DOMAIN reqs[r].response.headers = {}
                tenant_skips ==
                    /\ EventAt(reqs[r].log, "tenant_extract") = {}
                    /\ EventAt(reqs[r].log, "tenant_error") = {}
            IN  limiter_skips <=> tenant_skips

\* the tenant id the strategies yield for the request as it was received
YieldedId(req) ==
    extract_tenant_id_from_request([req EXCEPT !.state_tenant_id = None]).tenant_id

----------------------------------------------------------------------------
(* Route rules: SpecRules *)

InitRules ==
    /\ route_limits = <<>>
    /\ resolved = NoResolved
    /\ LimiterIdle
    /\ TenantIdle
    /\ PipeIdle
    /\ AuthIdle

\* rate_limit.py:230-246
add_route_limit(path_pattern, config) ==
    /\ route_limits' = RouteLimitsSet(route_limits, path_pattern, config)
    /\ UNCHANGED <<resolved, limVars, tenVars, pipeVars, authVars>>

\* rate_limit.py:248-260
get_rate_limit_config(path) ==
    /\ resolved' = [path |-> path, rules |-> route_limits,
                    config |-> GetRateLimitConfig(route_limits, path,
                                                  DefaultLimit, DefaultWindow)]
    /\ UNCHANGED <<route_limits, limVars, tenVars, pipeVars, authVars>>

NextRules ==
    \/ \E p \in Patterns, c \in MainConfigs : add_route_limit(p, c)
    \/ \E path \in RulePaths : get_rate_limit_config(path)

SpecRules == InitRules /\ [][NextRules]_vars

\* the registered patterns that are prefixes of the path
PrefixesOf(rl, path) == {i \in 1..Len(rl) : StartsWith(path, rl[i].pattern)}

\* C5: whatever the order of registration, the resolved rule is the rule
\* registered for exactly the path, otherwise the rule of the longest
\* registered prefix of the path, otherwise the default rule.
C5_LongestPrefix ==
    resolved.path # None =>
        LET rl == resolved.rules
            path == resolved.path
            pre == PrefixesOf(rl, path)
        IN  IF IndexOf(rl, path) # 0
            THEN resolved.config = rl[IndexOf(rl, path)].config
            ELSE IF pre # {}
            THEN \E i \in pre :
                    /\ \A j \in pre : Len(rl[j].pattern) <= Len(rl[i].pattern)
                    /\ resolved.config = rl[i].config
            ELSE resolved.config = RateLimitConfig(DefaultLimit, DefaultWindow)

----------------------------------------------------------------------------
(* Tenant extraction: SpecTenant *)

InitTenant ==
    /\ treq \in TenantRequests
    /\ tres = NoExtract
    /\ tdep = NoDep
    /\ LimiterIdle
    /\ RulesIdle
    /\ PipeIdle
    /\ AuthIdle

\* a request arrives
TenantRequest(request) ==
    /\ treq' = request
    /\ tres' = NoExtract
    /\ tdep' = NoDep
    /\ UNCHANGED <<limVars, ruleVars, pipeVars, authVars>>

\* tenant.py:90-127
ExtractTenant ==
    /\ tres = NoExtract
    /\ tres' = extract_tenant_id_from_request(treq)
    /\ UNCHANGED <<treq, tdep, limVars, ruleVars, pipeVars, authVars>>

NextTenant ==
    \/ \E request \in TenantRequests : TenantRequest(request)
    \/ ExtractTenant

SpecTenant == InitTenant /\ [][NextTenant]_vars

\* C10: the strategies are evaluated in the order header, subdomain, path,
\* request state; the result is the value of the first one that yields a
\* non-empty value (None if none does), the strategies consulted are exactly
\* those up to and including that one, and a request with X-Tenant-ID: t1 and
\* host t2.example.com resolves to t1.
C10_StrategyOrder ==
    tres.consulted # <<>> =>
        LET h == HeaderTenantStrategy(treq)
            s == SubdomainTenantStrategy(treq)
            p == PathTenantStrategy(treq)
            j == JWTTenantStrategy(treq)
        IN  /\ tres.tenant_id =
                   (IF Truthy(h) THEN h ELSE IF Truthy(s) THEN s
                    ELSE IF Truthy(p) THEN p ELSE IF Truthy(j) THEN j ELSE None)
            /\ tres.consulted =
                   (IF Truthy(h) THEN <<"header">>
                    ELSE IF Truthy(s) THEN <<"header", "subdomain">>
                    ELSE IF Truthy(p) THEN <<"header", "subdomain", "path">>
                    ELSE <<"header", "subdomain", "path", "jwt">>)
            /\ (treq.x_tenant_id = StrT1 /\ treq.host = HostT2) =>
                   tres.tenant_id = StrT1

\* C10 witness: a request with header t1 and host t2.example.com was resolved
C10_Witness ==
    /\ tres.consulted # <<>>
    /\ treq.x_tenant_id = StrT1
    /\ treq.host = HostT2
    /\ SubdomainTenantStrategy(treq) = StrT2
    /\ tres.tenant_id = StrT1

----------------------------------------------------------------------------
(* Tenant validation and the tenant dependencies: app/dependencies/tenant.py *)

\* tenant identifiers of the mock tenant table, and hosts and paths that
\* carry them
\* "tenant-1"
StrTenant1 ==
    <<"t", "e", "n", "a", "n", "t", "-", "1">>
\* "tenant-2"
StrTenant2 ==
    <<"t", "e", "n", "a", "n", "t", "-", "2">>
\* "tenant-3"
StrTenant3 ==
    <<"t", "e", "n", "a", "n", "t", "-", "3">>
\* "unknown-id"
StrUnknownId ==
    <<"u", "n", "k", "n", "o", "w", "n", "-", "i", "d">>
\* "tenant-3.erp.com"
HostTenant3 ==
    <<"t", "e", "n", "a", "n", "t", "-", "3", ".", "e", "r", "p", ".",
    "c", "o", "m">>
\* "/api/tenant-1/users"
PathApiTenant1 ==
    <<"/", "a", "p", "i", "/", "t", "e", "n", "a", "n", "t", "-", "1",
    "/", "u", "s", "e", "r", "s">>

\* tenant.py:152-174: mock_tenants
MockTenants ==
    [id \in {StrTenant1, StrTenant2, StrTenant3} |->
        CASE id = StrTenant1 ->
                [id |-> StrTenant1, name |-> "Acme Corporation",
                 domain |-> "acme.erp.com", is_active |-> TRUE,
                 settings |-> [k \in {"timezone", "currency"} |->
                                 IF k = "timezone" THEN "UTC" ELSE "USD"]]
          [] id = StrTenant2 ->
                [id |-> StrTenant2, name |-> "TechCorp Inc",
                 domain |-> "techcorp.erp.com", is_active |-> TRUE,
                 settings |-> [k \in {"timezone", "currency"} |->
                                 IF k = "timezone" THEN "EST" ELSE "USD"]]
          [] id = StrTenant3 ->
                [id |-> StrTenant3, name |-> "Inactive Tenant",
                 domain |-> "inactive.erp.com", is_active |-> FALSE,
                 settings |-> <<>>]]

\* raise HTTPException(status_code=...)
HTTPException(status_code) == [class |-> "HTTPException", status_code |-> status_code]

\* the outcome of a call: a value returned, or an exception raised and
\* nothing returned
Return(value) == [raised |-> FALSE, exc |-> NoExc, value |-> value]
Raise(exc, nothing) == [raised |-> TRUE, exc |-> exc, value |-> nothing]

\* tenant.py:195-201
TenantContext(tenant_data) ==
    [tenant_id |-> tenant_data.id, tenant_name |-> tenant_data.name,
     domain |-> tenant_data.domain, is_active |-> tenant_data.is_active,
     settings |-> tenant_data.settings]

\* a validation that does not look at the active flag
ValidateTenantAnyRecord(tenant_id) ==
    IF tenant_id \notin DOMAIN MockTenants
    THEN Raise(HTTPException(404), NoTenantContext)
    ELSE Return(TenantContext(MockTenants[tenant_id]))

\* tenant.py:130-201
validate_tenant(tenant_id) ==
    IF tenant_id \notin DOMAIN MockTenants
    THEN Raise(HTTPException(404), NoTenantContext)
    ELSE IF ~MockTenants[tenant_id].is_active
    THEN Raise(HTTPException(403), NoTenantContext)
    ELSE Return(TenantContext(MockTenants[tenant_id]))

\* the outcome of a dependency with what it did on the way: the ids given to
\* validate_tenant and request.state.tenant_context
DepOutcome(op, arg, res, validated, state_tenant_context) ==
    [op |-> op, arg |-> arg, raised |-> res.raised, exc |-> res.exc,
     value |-> res.value, validated |-> validated,
     state_tenant_context |-> state_tenant_context]

\* a dependency that validates whatever the extraction returned
GetTenantContextAlwaysValidate(request) ==
    LET tenant_id == extract_tenant_id_from_request(request).tenant_id
        res == validate_tenant(tenant_id)
    IN  DepOutcome("get_tenant_context", None, res, <<tenant_id>>,
                   IF res.raised THEN NoTenantContext ELSE res.value)

\* tenant.py:204-251
get_tenant_context(request) ==
    LET tenant_id == extract_tenant_id_from_request(request).tenant_id
    IN  IF ~Truthy(tenant_id)
        THEN DepOutcome("get_tenant_context", None, Raise(HTTPException(400), NoTenantContext),
                        <<>>, NoTenantContext)
        ELSE LET res == validate_tenant(tenant_id)
             IN  DepOutcome("get_tenant_context", None, res, <<tenant_id>>,
                            IF res.raised THEN NoTenantContext ELSE res.value)

\* an optional dependency that swallows only the missing-id error
GetOptionalTenantContextOnly400(request) ==
    LET inner == get_tenant_context(request)
    IN  IF inner.raised /\ inner.exc.class = "HTTPException"
                        /\ inner.exc.status_code = 400
        THEN [inner EXCEPT !.op = "get_optional_tenant_context",
                           !.raised = FALSE, !.exc = NoExc,
                           !.value = NoTenantContext]
        ELSE [inner EXCEPT !.op = "get_optional_tenant_context"]

\* tenant.py:254-274: except HTTPException: return None
get_optional_tenant_context(request) ==
    LET inner == get_tenant_context(request)
    IN  IF inner.raised /\ inner.exc.class = "HTTPException"
        THEN [inner EXCEPT !.op = "get_optional_tenant_context",
                           !.raised = FALSE, !.exc = NoExc,
                           !.value = NoTenantContext]
        ELSE [inner EXCEPT !.op = "get_optional_tenant_context"]

\* settings = None: the tenant has no settings
NoSettings == [k \in {"None"} |-> "None"]

\* a == b for setting values, written as Python writes them: True equals 1
\* and False equals 0
PyEq(a, b) ==
    LET num(v) == IF v = "True" THEN "1" ELSE IF v = "False" THEN "0" ELSE v
    IN  num(a) = num(b)

\* the outcome of the setting guard: what it required, the outcome of
\* get_tenant_context it depends on, and what it raised or returned
SettingOutcome(setting_key, expected_value, tenant, res) ==
    [op |-> "require_tenant_setting", arg |-> None,
     raised |-> res.raised, exc |-> res.exc, value |-> res.value,
     validated |-> tenant.validated,
     state_tenant_context |-> tenant.state_tenant_context,
     setting_key |-> setting_key, expected_value |-> expected_value,
     tenant |-> tenant]

\* a guard that only asks for the key
RequireTenantSettingKeyOnly(setting_key, expected_value, tenant) ==
    IF tenant.raised
    THEN SettingOutcome(setting_key, expected_value, tenant,
                        Raise(tenant.exc, NoTenantContext))
    ELSE LET settings == IF tenant.value.settings = NoSettings THEN <<>>
                         ELSE tenant.value.settings
         IN  IF setting_key \notin DOMAIN settings
             THEN SettingOutcome(setting_key, expected_value, tenant,
                                 Raise(HTTPException(403), NoTenantContext))
             ELSE SettingOutcome(setting_key, expected_value, tenant,
                                 Return(tenant.value))

\* tenant.py:277-316: Depends(get_tenant_context) is resolved first and what
\* it raises ends the request; expected_value "None" stands for None
require_tenant_setting(setting_key, expected_value, tenant) ==
    IF tenant.raised
    THEN SettingOutcome(setting_key, expected_value, tenant,
                        Raise(tenant.exc, NoTenantContext))
    ELSE LET settings == IF tenant.value.settings = NoSettings THEN <<>>
                         ELSE tenant.value.settings
         IN  IF setting_key \notin DOMAIN settings
             THEN SettingOutcome(setting_key, expected_value, tenant,
                                 Raise(HTTPException(403), NoTenantContext))
             ELSE IF expected_value # "None"
                     /\ ~PyEq(settings[setting_key], expected_value)
             THEN SettingOutcome(setting_key, expected_value, tenant,
                                 Raise(HTTPException(403), NoTenantContext))
             ELSE SettingOutcome(setting_key, expected_value, tenant,
                                 Return(tenant.value))

\* the settings a tenant's record can hold, beside those of the tenant
\* table: none, an empty map, and maps with premium_enabled
SettingsValues ==
    {NoSettings, <<>>}
    \cup [{"premium_enabled"} -> {"True", "False", "1"}]
    \cup [{"premium_enabled", "timezone"} -> {"True", "UTC"}]
\* the choice of leaving the settings as the tenant table holds them
AsStored == [k \in {"stored"} |-> "stored"]
SettingKeys == {"premium_enabled", "timezone"}
ExpectedValues == {"None", "True", "False", "UTC"}

\* the requests and identifiers of the tenant dependencies
CtxHeaderValues == {None, <<>>, StrTenant1, StrTenant3, StrUnknownId}
CtxHosts == {HostLocal, HostT2, HostTenant3}
CtxPaths == {PathRoot, PathHealth, PathApiTenant1, PathInternal, PathFinance}
CtxStateValues == {None, StrTenant2}
CtxRequests ==
    [x_tenant_id : CtxHeaderValues, host : CtxHosts, path : CtxPaths,
     state_tenant_id : CtxStateValues]
CtxIds == {<<>>, StrTenant1, StrTenant2, StrTenant3, StrUnknownId, StrT2}

InitTenantCtx ==
    /\ treq \in CtxRequests
    /\ tres = NoExtract
    /\ tdep = NoDep
    /\ LimiterIdle
    /\ RulesIdle
    /\ PipeIdle
    /\ AuthIdle

\* a request arrives
CtxRequest(request) ==
    /\ tdep # NoDep
    /\ treq' = request
    /\ tdep' = NoDep
    /\ UNCHANGED <<tres, limVars, ruleVars, pipeVars, authVars>>

\* tenant.py:130-201 called with an identifier
ValidateTenantCall(tenant_id) ==
    /\ tdep = NoDep
    /\ tdep' = DepOutcome("validate_tenant", tenant_id,
                          validate_tenant(tenant_id), <<tenant_id>>,
                          NoTenantContext)
    /\ UNCHANGED <<treq, tres, limVars, ruleVars, pipeVars, authVars>>

\* tenant.py:204-251 resolved for the request
GetTenantContextCall ==
    /\ tdep = NoDep
    /\ tdep' = get_tenant_context(treq)
    /\ UNCHANGED <<treq, tres, limVars, ruleVars, pipeVars, authVars>>

\* tenant.py:254-274 resolved for the request
GetOptionalTenantContextCall ==
    /\ tdep = NoDep
    /\ tdep' = get_optional_tenant_context(treq)
    /\ UNCHANGED <<treq, tres, limVars, ruleVars, pipeVars, authVars>>

\* tenant.py:277-316 resolved for the request, for a tenant whose record
\* holds the settings of the tenant table or the given ones
RequireTenantSettingCall(setting_key, expected_value, settings) ==
    /\ tdep = NoDep
    /\ LET dep == get_tenant_context(treq)
           tenant == IF dep.raised \/ settings = AsStored THEN dep
                     ELSE [dep EXCEPT !.value.settings = settings,
                                      !.state_tenant_context.settings = settings]
       IN  tdep' = require_tenant_setting(setting_key, expected_value, tenant)
    /\ UNCHANGED <<treq, tres, limVars, ruleVars, pipeVars, authVars>>

NextTenantCtx ==
    \/ \E request \in CtxRequests : CtxRequest(request)
    \/ \E tenant_id \in CtxIds : ValidateTenantCall(tenant_id)
    \/ GetTenantContextCall
    \/ GetOptionalTenantContextCall
    \/ \E setting_key \in SettingKeys, expected_value \in ExpectedValues,
          settings \in SettingsValues \cup {AsStored} :
          RequireTenantSettingCall(setting_key, expected_value, settings)

SpecTenantCtx == InitTenantCtx /\ [][NextTenantCtx]_vars

\* C11: validate_tenant has three outcomes: 404 for an identifier without a
\* record, 403 for the inactive tenant-3, a TenantContext of the identifier
\* for the active tenant-1 and tenant-2; every TenantContext a dependency
\* returns or stores in request.state.tenant_context is active.
C11_OnlyActiveTenants ==
    /\ tdep.op = "validate_tenant" =>
          /\ tdep.arg \notin {StrTenant1, StrTenant2, StrTenant3} =>
                tdep.raised /\ tdep.exc = HTTPException(404)
          /\ tdep.arg = StrTenant3 =>
                tdep.raised /\ tdep.exc = HTTPException(403)
          /\ tdep.arg \in {StrTenant1, StrTenant2} =>
                /\ ~tdep.raised
                /\ tdep.value.tenant_id = tdep.arg
                /\ tdep.value.is_active
          /\ tdep.raised => tdep.value = NoTenantContext
    /\ tdep.value # NoTenantContext => ~tdep.raised /\ tdep.value.is_active
    /\ tdep.state_tenant_context # NoTenantContext =>
          tdep.state_tenant_context.is_active

\* C11 witness: a request naming the inactive tenant-3 was refused with 403
\* by get_tenant_context and nothing was stored
C11_Witness ==
    /\ tdep.op = "get_tenant_context"
    /\ tdep.validated = <<StrTenant3>>
    /\ tdep.raised
    /\ tdep.exc.status_code = 403
    /\ tdep.state_tenant_context = NoTenantContext

\* C12: get_tenant_context raises 400 exactly when none of header,
\* subdomain, path and request state yields a tenant id, and then
\* validate_tenant is not called and request.state.tenant_context is not set.
C12_MissingTenantId ==
    tdep.op = "get_tenant_context" =>
        LET none_yields ==
                /\ ~Truthy(HeaderTenantStrategy(treq))
                /\ ~Truthy(SubdomainTenantStrategy(treq))
                /\ ~Truthy(PathTenantStrategy(treq))
                /\ ~Truthy(JWTTenantStrategy(treq))
        IN  /\ (tdep.raised /\ tdep.exc = HTTPException(400)) <=> none_yields
            /\ none_yields =>
                  /\ tdep.validated = <<>>
                  /\ tdep.state_tenant_context = NoTenantContext

\* C12 witness: a request without header, subdomain, tenant path or state
\* was refused with 400
C12_Witness ==
    /\ tdep.op = "get_tenant_context"
    /\ treq.x_tenant_id = <<>>
    /\ treq.host = HostLocal
    /\ treq.path = PathInternal
    /\ treq.state_tenant_id = None
    /\ tdep.raised
    /\ tdep.exc.status_code = 400

\* C13: get_optional_tenant_context never raises: it returns the context
\* get_tenant_context returns when that succeeds and None whenever
\* get_tenant_context raises (400, 404 or 403).
C13_OptionalNeverRaises ==
    tdep.op = "get_optional_tenant_context" =>
        LET inner == get_tenant_context(treq)
        IN  /\ ~tdep.raised
            /\ tdep.exc = NoExc
            /\ ~inner.raised => tdep.value = inner.value /\ tdep.value.is_active
            /\ inner.raised => tdep.value = NoTenantContext

\* C13 witness: the optional dependency returned None for an unknown tenant
C13_Witness ==
    /\ tdep.op = "get_optional_tenant_context"
    /\ treq.x_tenant_id = StrUnknownId
    /\ tdep.validated = <<StrUnknownId>>
    /\ ~tdep.raised
    /\ tdep.value = NoTenantContext

\* C23: require_tenant_setting(key, expected) returns the resolved context
\* unchanged only if the tenant's settings hold key and, when an expected
\* value is given, the stored value equals it; a missing key or another
\* value gives 403; a tenant without settings counts as one with an empty
\* map.
C23_SettingGuard ==
    (tdep.op = "require_tenant_setting" /\ ~tdep.tenant.raised) =>
        LET stored == tdep.tenant.value.settings
            has_key == /\ stored # NoSettings
                       /\ tdep.setting_key \in DOMAIN stored
            matches == \/ tdep.expected_value = "None"
                       \/ PyEq(stored[tdep.setting_key], tdep.expected_value)
        IN  /\ ~tdep.raised <=> (has_key /\ matches)
            /\ ~tdep.raised => tdep.value = tdep.tenant.value
            /\ tdep.raised =>
                  /\ tdep.exc = HTTPException(403)
                  /\ tdep.value = NoTenantContext
            /\ stored = NoSettings => tdep.raised

\* C23 witness: premium_enabled is required to be True and the tenant's
\* settings hold it as False: 403
C23_Witness ==
    /\ tdep.op = "require_tenant_setting"
    /\ ~tdep.tenant.raised
    /\ tdep.setting_key = "premium_enabled"
    /\ tdep.expected_value = "True"
    /\ "premium_enabled" \in DOMAIN tdep.tenant.value.settings
    /\ tdep.tenant.value.settings["premium_enabled"] = "False"
    /\ tdep.raised
    /\ tdep.exc.status_code = 403

\* the path is /api/{seg}/... with seg non-empty and not starting with "_"
HasApiSegment(path) ==
    LET parts == Split(path, "/")
    IN  /\ Len(parts) >= 4
        /\ parts[1] = <<>>
        /\ parts[2] = StrApi
        /\ parts[3] # <<>>
        /\ ~StartsWith(parts[3], <<"_">>)

\* C29: for a request to /api/{seg}/... without an X-Tenant-ID header and
\* with a host of fewer than three labels the extraction returns seg (a
\* module name such as finance) as the tenant id without consulting the
\* request-state strategy, and get_tenant_context does not answer 400 but
\* goes on to validate seg.
C29_PathSegmentIsTenant ==
    (/\ HasApiSegment(treq.path)
     /\ ~Truthy(treq.x_tenant_id)
     /\ Len(Split(treq.host, ".")) < 3)
    => LET seg == Split(treq.path, "/")[3]
           extracted == extract_tenant_id_from_request(treq)
       IN  /\ extracted.tenant_id = seg
           /\ extracted.consulted = <<"header", "subdomain", "path">>
           /\ tdep.op = "get_tenant_context" =>
                 /\ ~(tdep.raised /\ tdep.exc.status_code = 400)
                 /\ tdep.validated = <<seg>>

\* C29 witness: a finance route called without a tenant header on the plain
\* host while request.state names an active tenant: "finance" is validated
\* and not found
C29_Witness ==
    /\ treq.path = PathFinance
    /\ treq.x_tenant_id = None
    /\ treq.host = HostLocal
    /\ treq.state_tenant_id = StrTenant2
    /\ tdep.op = "get_tenant_context"
    /\ tdep.validated = <<StrFinance>>
    /\ tdep.raised
    /\ tdep.exc.status_code = 404

----------------------------------------------------------------------------
(* Token service: app/dependencies.py, app/schemas.py, app/config.py *)

\* config.py:28: JWT_SECRET_KEY, and a key that is not the server's
JwtSecretKey == "your-secret-key-change-in-production"
OtherKey == "attacker-key"

\* config.py:30-31: the access and refresh lifetimes (60 minutes, 30 days),
\* in seconds of the model's clock
TokenExpire == [access |-> 2, refresh |-> 3]

\* the HS256 signature of a payload under a key: equal exactly for equal keys
\* and payloads
Sign(key, payload) == [key |-> key, over |-> payload]

\* jose.jwt.encode: datetime claims become whole epoch seconds
\* (timegm(utctimetuple()) drops the microseconds), then the header,
\* payload and signature are serialised
JwtEncode(to_encode, key) ==
    LET payload == [to_encode EXCEPT !.exp = @ \div TicksPerSecond,
                                     !.iat = @ \div TicksPerSecond]
    IN  [kind |-> "jwt", payload |-> payload, signature |-> Sign(key, payload)]

\* no expires_delta given
NoDelta == [given |-> FALSE, seconds |-> 0]
Timedelta(seconds) == [given |-> TRUE, seconds |-> seconds]

\* dependencies.py:51-87; `if expires_delta:` is false for None and for
\* timedelta(0)
create_access_token(data, expires_delta, current) ==
    LET expire == IF expires_delta.given /\ expires_delta.seconds # 0
                  THEN current + expires_delta.seconds * TicksPerSecond
                  ELSE current + TokenExpire.access * TicksPerSecond
    IN  JwtEncode([sub |-> data.sub, email |-> data.email, role |-> data.role,
                   exp |-> expire, iat |-> current, type |-> "access"],
                  JwtSecretKey)

\* dependencies.py:90-116
create_refresh_token(data, current) ==
    LET expire == current + TokenExpire.refresh * TicksPerSecond
    IN  JwtEncode([sub |-> data.sub, email |-> data.email, role |-> data.role,
                   exp |-> expire, iat |-> current, type |-> "refresh"],
                  JwtSecretKey)

\* jose.jwt.decode (dependencies.py:173-177): the thing must be a token, the
\* signature must be the key's, and exp must not be before the current
\* whole second
JwtDecode(token, key, current) ==
    IF token.kind # "jwt" THEN [err |-> "JWTError", payload |-> NoPayload]
    ELSE IF token.signature # Sign(key, token.payload)
    THEN [err |-> "JWTError", payload |-> NoPayload]
    ELSE IF token.payload.exp < current \div TicksPerSecond
    THEN [err |-> "ExpiredSignatureError", payload |-> NoPayload]
    ELSE [err |-> "none", payload |-> token.payload]

\* datetime.fromtimestamp(ts): the naive local time of an epoch second, in
\* ticks on the scale of datetime.utcnow()
FromTimestamp(ts, zone) == (ts + zone) * TicksPerSecond

\* HTTPException(status_code=401, detail=..., headers={"WWW-Authenticate": "Bearer"})
Unauthorized(detail) ==
    [class |-> "HTTPException", status_code |-> 401, detail |-> detail,
     headers |-> [h \in {"WWW-Authenticate"} |-> "Bearer"]]

\* HTTPException(status_code=403, detail=...)
Forbidden(detail) ==
    [class |-> "HTTPException", status_code |-> 403, detail |-> detail,
     headers |-> <<>>]

\* dependencies.py:248-254: an HTTPException raised inside the try block is
\* an Exception and is raised again as "Authentication failed"
ExceptException(exc) == Unauthorized("Authentication failed")

\* dependencies.py:227-232
TokenData(payload, zone) ==
    [user_id |-> payload.sub, email |-> payload.email, role |-> payload.role,
     exp |-> IF payload.exp # 0 THEN FromTimestamp(payload.exp, zone) ELSE 0]

\* dependencies.py:157-254
verify_token(token, token_type, current, zone) ==
    LET decoded == JwtDecode(token, JwtSecretKey, current)
        payload == decoded.payload
    IN  IF decoded.err = "ExpiredSignatureError"
        THEN Raise(Unauthorized("Token has expired"), NoTokenData)
        ELSE IF decoded.err = "JWTError"
        THEN Raise(Unauthorized("Could not validate credentials"), NoTokenData)
        ELSE IF payload.type # token_type
        THEN Raise(ExceptException(Unauthorized("Invalid token type")), NoTokenData)
        ELSE IF ~Truthy(payload.sub) \/ ~Truthy(payload.email) \/ ~Truthy(payload.role)
        THEN Raise(ExceptException(Unauthorized("Invalid token payload - missing required fields")),
                   NoTokenData)
        ELSE IF payload.role \notin UserRoleValues
        THEN Raise(ExceptException(Unauthorized("Invalid role in token")), NoTokenData)
        ELSE IF payload.exp # 0 /\ FromTimestamp(payload.exp, zone) < current
        THEN Raise(ExceptException(Unauthorized("Token has expired")), NoTokenData)
        ELSE Return(TokenData(payload, zone))

\* truthiness of an Optional[str] that holds a token
TokenTruthy(token) == token.kind \notin {"None", "empty"}

\* the empty string, and a string that is not a JWT
EmptyToken == [NoToken EXCEPT !.kind = "empty"]
GarbageToken == [NoToken EXCEPT !.kind = "garbage"]

\* an extraction that prefers the cookie to the Authorization header
ExtractTokenCookieFirst(request) ==
    IF TokenTruthy(request.auth_token) THEN request.auth_token
    ELSE IF TokenTruthy(request.credentials) THEN request.credentials
    ELSE IF TokenTruthy(request.token) THEN request.token
    ELSE NoToken

\* dependencies.py:119-154
extract_token_from_request(request) ==
    IF TokenTruthy(request.credentials) THEN request.credentials
    ELSE IF TokenTruthy(request.auth_token) THEN request.auth_token
    ELSE IF TokenTruthy(request.token) THEN request.token
    ELSE NoToken

\* the outcome of a token operation with its arguments and the tokens it
\* gave to verify_token
AuthOutcome(op, token, token_type, current, res, verified) ==
    [op |-> op, token |-> token, token_type |-> token_type, at |-> current,
     raised |-> res.raised, exc |-> res.exc, value |-> res.value,
     verified |-> verified]

\* dependencies.py:257-298
get_current_user(request, current, zone) ==
    LET token == extract_token_from_request(request)
    IN  IF ~TokenTruthy(token)
        THEN AuthOutcome("get_current_user", token, "access", current,
                 Raise(Unauthorized("Not authenticated - no token provided"),
                       NoTokenData),
                 <<>>)
        ELSE AuthOutcome("get_current_user", token, "access", current,
                 verify_token(token, "access", current, zone), <<token>>)

----------------------------------------------------------------------------
(* Issuing, altering and verifying tokens as time passes: SpecAuth *)

\* the server's time zone, in seconds of the model's clock east of UTC
TzOffsets == {0 - TokenExpire.access, 0, TokenExpire.access}

\* the data given to create_access_token and create_refresh_token
TokenDataValues ==
    [sub : {StrUserId}, email : {StrEmail}, role : {RoleAdmin, RoleViewer}]
    \cup {[sub |-> None, email |-> StrEmail, role |-> RoleAdmin],
          [sub |-> StrUserId, email |-> <<>>, role |-> RoleAdmin],
          [sub |-> StrUserId, email |-> StrEmail, role |-> None],
          [sub |-> StrUserId, email |-> StrEmail, role |-> RoleRoot]}

\* expires_delta: not given, one second in the past, one second
Deltas == {NoDelta, Timedelta(0 - 1), Timedelta(1)}

\* the sources of a request: the Authorization header, the auth-token
\* cookie, the token query parameter
AuthRequests(token) ==
    [credentials : {NoToken, EmptyToken, GarbageToken, token},
     auth_token : {NoToken, GarbageToken, token},
     token : {NoToken, token}]

\* the time at which the model starts: two seconds after the epoch, so that
\* no expires-at is the epoch itself
AuthStart == 2 * TicksPerSecond

InitAuth ==
    /\ utcnow = AuthStart
    /\ tz \in TzOffsets
    /\ tok = NoToken
    /\ areq = NoAuthRequest
    /\ ares = NoAuth
    /\ role_permissions = ROLE_PERMISSIONS
    /\ rres = NoRoute
    /\ LimiterIdle
    /\ RulesIdle
    /\ TenantIdle
    /\ PipeIdle

authFrame == <<limVars, ruleVars, tenVars, pipeVars, role_permissions, rres>>

\* dependencies.py:51-87 at the current time
CreateAccessToken(data, expires_delta) ==
    /\ tok' = create_access_token(data, expires_delta, utcnow)
    /\ areq' = NoAuthRequest
    /\ ares' = NoAuth
    /\ UNCHANGED <<utcnow, tz, authFrame>>

\* dependencies.py:90-116 at the current time
CreateRefreshToken(data) ==
    /\ tok' = create_refresh_token(data, utcnow)
    /\ areq' = NoAuthRequest
    /\ ares' = NoAuth
    /\ UNCHANGED <<utcnow, tz, authFrame>>

\* a client changes the role of its token and keeps the signature, or signs
\* the token with a key of its own
AlterToken ==
    /\ tok.kind = "jwt"
    /\ tok.signature = Sign(JwtSecretKey, tok.payload)
    /\ \/ /\ tok.payload.role # RoleAdmin
          /\ tok' = [tok EXCEPT !.payload.role = RoleAdmin]
       \/ tok' = [tok EXCEPT !.signature = Sign(OtherKey, tok.payload)]
    /\ areq' = NoAuthRequest
    /\ ares' = NoAuth
    /\ UNCHANGED <<utcnow, tz, authFrame>>

\* dependencies.py:157-254 on the token, at the current time
VerifyToken(token_type) ==
    /\ tok # NoToken
    /\ ares' = AuthOutcome("verify_token", tok, token_type, utcnow,
                           verify_token(tok, token_type, utcnow, tz), <<tok>>)
    /\ areq' = NoAuthRequest
    /\ UNCHANGED <<utcnow, tz, tok, authFrame>>

\* dependencies.py:257-298 on a request, at the current time
GetCurrentUser(request) ==
    /\ areq' = request
    /\ ares' = get_current_user(request, utcnow, tz)
    /\ UNCHANGED <<utcnow, tz, tok, authFrame>>

\* the clock advances
AuthTick ==
    /\ utcnow < AuthStart + MaxAuthTime
    /\ utcnow' = utcnow + 1
    /\ areq' = NoAuthRequest
    /\ ares' = NoAuth
    /\ UNCHANGED <<tz, tok, authFrame>>

NextAuth ==
    \/ \E data \in TokenDataValues, expires_delta \in Deltas :
          CreateAccessToken(data, expires_delta)
    \/ \E data \in TokenDataValues : CreateRefreshToken(data)
    \/ AlterToken
    \/ \E token_type \in {"access", "refresh"} : VerifyToken(token_type)
    \/ \E request \in AuthRequests(tok) : GetCurrentUser(request)
    \/ AuthTick

SpecAuth == InitAuth /\ [][NextAuth]_vars

----------------------------------------------------------------------------
(* Claims checked under SpecAuth *)

\* the token carries the server's signature
ServerSigned(token) ==
    token.kind = "jwt" /\ token.signature = Sign(JwtSecretKey, token.payload)

\* the token was issued by create_access_token or create_refresh_token for a
\* subject, an e-mail address and a role of UserRole
WellFormed(token) ==
    /\ ServerSigned(token)
    /\ Truthy(token.payload.sub)
    /\ Truthy(token.payload.email)
    /\ token.payload.role \in UserRoleValues

\* the time is later than the token's expires-at
ExpiredAt(token, current) == current > token.payload.exp * TicksPerSecond

\* the outcome is a 401 with the Bearer challenge and no claims
Is401(res) ==
    /\ res.raised
    /\ res.exc.class = "HTTPException"
    /\ res.exc.status_code = 401
    /\ "WWW-Authenticate" \in DOMAIN res.exc.headers
    /\ res.exc.headers["WWW-Authenticate"] = "Bearer"
    /\ res.value = NoTokenData

\* C14: an access token issued for a valid (subject, email, role) and
\* verified as 'access' before it expires yields claims with the same
\* subject, email and role; an access token verified as 'refresh' fails, and
\* a refresh token given to get_current_user is rejected with 401.
C14_RoundTripAndType ==
    /\ (/\ ares.op = "verify_token"
        /\ ares.token_type = "access"
        /\ WellFormed(ares.token)
        /\ ares.token.payload.type = "access"
        /\ ~ExpiredAt(ares.token, ares.at)) =>
           /\ ~ares.raised
           /\ ares.value.user_id = ares.token.payload.sub
           /\ ares.value.email = ares.token.payload.email
           /\ ares.value.role = ares.token.payload.role
    /\ (/\ ares.op = "verify_token"
        /\ ares.token_type = "refresh"
        /\ ServerSigned(ares.token)
        /\ ares.token.payload.type = "access") => Is401(ares)
    /\ (/\ ares.op = "get_current_user"
        /\ ServerSigned(ares.token)
        /\ ares.token.payload.type = "refresh") => Is401(ares)

\* C15: no token is accepted at a verification time later than its
\* expires-at (a token issued with ttl = -1 second is past its expires-at
\* at every verification).
C15_DiesAtExpiry ==
    (/\ ares.op \in {"verify_token", "get_current_user"}
     /\ ServerSigned(ares.token)
     /\ ExpiredAt(ares.token, ares.at)) => Is401(ares)

\* C16: claims are returned only for a token with the server's signature,
\* the expected type, subject, email and role present, a role of UserRole
\* and an expires-at not yet passed; every other case, and a request without
\* a token, ends in 401 with WWW-Authenticate: Bearer and no claims.
C16_SingleUnauthenticatedOutcome ==
    ares.op \in {"verify_token", "get_current_user"} =>
        /\ ~ares.raised =>
              /\ WellFormed(ares.token)
              /\ ares.token.payload.type = ares.token_type
              /\ ~ExpiredAt(ares.token, ares.at)
              /\ ares.value # NoTokenData
        /\ ares.raised => Is401(ares)

\* the first of the three sources that is neither None nor empty
FirstSource(request) ==
    IF request.credentials.kind \notin {"None", "empty"} THEN <<request.credentials>>
    ELSE IF request.auth_token.kind \notin {"None", "empty"} THEN <<request.auth_token>>
    ELSE IF request.token.kind \notin {"None", "empty"} THEN <<request.token>>
    ELSE <<>>

\* C17: get_current_user verifies the first non-empty of Authorization
\* header, auth-token cookie and token query parameter, and only that one,
\* also when it is invalid; with all three absent the request is rejected
\* with 401 and nothing is verified.
C17_ExtractionPrecedence ==
    ares.op = "get_current_user" =>
        /\ ares.verified = FirstSource(areq)
        /\ FirstSource(areq) = <<>> => Is401(ares)
        /\ FirstSource(areq) # <<>> =>
              LET res == verify_token(FirstSource(areq)[1], "access", ares.at, tz)
              IN  /\ ares.raised = res.raised
                  /\ ares.exc = res.exc
                  /\ ares.value = res.value

\* C17 witness: the header holds a string that is not a token and the
\* cookie a token the server would accept: the header's string was verified
\* and the request rejected
C17_Witness ==
    /\ ares.op = "get_current_user"
    /\ areq.credentials = GarbageToken
    /\ WellFormed(areq.auth_token)
    /\ ~verify_token(areq.auth_token, "access", ares.at, tz).raised
    /\ ares.verified = <<GarbageToken>>
    /\ ares.raised

----------------------------------------------------------------------------
(* Issuing tokens with and without a lifetime of the caller: SpecIssue *)

\* expires_delta: not given, one second in the past, zero, one second
IssueDeltas == Deltas \cup {Timedelta(0)}

\* what a call of create_access_token or create_refresh_token was given and
\* when it was made
Issued(op, expires_delta, current) ==
    [op |-> op, expires_delta |-> expires_delta, at |-> current]

\* dependencies.py:51-87 at the current time
IssueAccess(data, expires_delta) ==
    /\ tok' = create_access_token(data, expires_delta, utcnow)
    /\ ares' = Issued("create_access_token", expires_delta, utcnow)
    /\ UNCHANGED <<utcnow, tz, areq, authFrame>>

\* dependencies.py:90-116 at the current time
IssueRefresh(data) ==
    /\ tok' = create_refresh_token(data, utcnow)
    /\ ares' = Issued("create_refresh_token", NoDelta, utcnow)
    /\ UNCHANGED <<utcnow, tz, areq, authFrame>>

\* time passes between two calls
IssueTick ==
    /\ utcnow < AuthStart + MaxAuthTime
    /\ utcnow' = utcnow + 1
    /\ UNCHANGED <<tz, tok, areq, ares, authFrame>>

NextIssue ==
    \/ \E data \in TokenDataValues, expires_delta \in IssueDeltas :
          IssueAccess(data, expires_delta)
    \/ \E data \in TokenDataValues : IssueRefresh(data)
    \/ IssueTick

SpecIssue == InitAuth /\ [][NextIssue]_vars

\* C28: create_access_token embeds expires-at = issue time + ttl for every
\* ttl the caller supplies (positive, zero or negative) and the access
\* default only when none is supplied; create_refresh_token always uses the
\* refresh default, which differs from the access default; the type of the
\* token is that of the issuing function; with the defaults
\* expires-at > issued-at.
C28_ExpiryEmbedded ==
    /\ TokenExpire.access # TokenExpire.refresh
    /\ ares.op = "create_access_token" =>
          /\ tok.payload.type = "access"
          /\ tok.payload.iat = ares.at \div TicksPerSecond
          /\ tok.payload.exp = tok.payload.iat +
                (IF ares.expires_delta.given THEN ares.expires_delta.seconds
                 ELSE TokenExpire.access)
          /\ ~ares.expires_delta.given => tok.payload.exp > tok.payload.iat
    /\ ares.op = "create_refresh_token" =>
          /\ tok.payload.type = "refresh"
          /\ tok.payload.iat = ares.at \div TicksPerSecond
          /\ tok.payload.exp = tok.payload.iat + TokenExpire.refresh
          /\ tok.payload.exp > tok.payload.iat

----------------------------------------------------------------------------
(* Role guards and a protected route: SpecGuard *)

\* dependencies.py:301-305: ROLE_PERMISSIONS.get(role, [])
get_user_permissions(role) ==
    IF role \in DOMAIN role_permissions THEN role_permissions[role] ELSE <<>>

\* the outcome of a guard: the outcome of get_current_user it depends on,
\* what it required, and what it raised or returned
GuardOutcome(op, required, auth, res) ==
    [op |-> op, required |-> required, auth |-> auth,
     raised |-> res.raised, exc |-> res.exc, value |-> res.value]

\* the checker of a guard: Depends(get_current_user) is resolved first and
\* what it raises ends the request; then the check, a 403 or current_user
Checker(op, required, auth, passes, detail) ==
    IF auth.raised
    THEN GuardOutcome(op, required, auth, Raise(auth.exc, NoTokenData))
    ELSE IF ~passes
    THEN GuardOutcome(op, required, auth, Raise(Forbidden(detail), NoTokenData))
    ELSE GuardOutcome(op, required, auth, Return(auth.value))

\* dependencies.py:308-325
require_permission(required_permission, auth) ==
    Checker("require_permission", required_permission, auth,
            required_permission \in Range(get_user_permissions(auth.value.role)),
            "Permission denied. Required permission")

\* dependencies.py:328-343
require_role(required_roles, auth) ==
    Checker("require_role", required_roles, auth,
            auth.value.role \in Range(required_roles),
            "Access denied. Required roles")

\* a guard that asks for every permission of the list
RequireAnyAsAll(required_permissions, auth) ==
    Checker("require_any_permission", required_permissions, auth,
            \A i \in DOMAIN required_permissions :
                required_permissions[i]
                    \in Range(get_user_permissions(auth.value.role)),
            "Permission denied. Required any of")

\* dependencies.py:346-363
require_any_permission(required_permissions, auth) ==
    Checker("require_any_permission", required_permissions, auth,
            \E i \in DOMAIN required_permissions :
                required_permissions[i]
                    \in Range(get_user_permissions(auth.value.role)),
            "Permission denied. Required any of")

\* dependencies.py:366-383
require_all_permissions(required_permissions, auth) ==
    Checker("require_all_permissions", required_permissions, auth,
            \A i \in DOMAIN required_permissions :
                required_permissions[i]
                    \in Range(get_user_permissions(auth.value.role)),
            "Permission denied. Required all of")

\* "/api/finance/journal-entries"
PathJournalEntries ==
    <<"/", "a", "p", "i", "/", "f", "i", "n", "a", "n", "c", "e", "/",
    "j", "o", "u", "r", "n", "a", "l", "-", "e", "n", "t", "r", "i",
    "e", "s">>

\* the outcome of a request to the route: the request, the response's
\* status and headers, how often the handler body ran and with which
\* arguments, and the outcomes of the two dependencies
RouteOutcome(request, status_code, headers, handler_calls, guard, tenant_dep) ==
    [op |-> "create_journal_entry", request |-> request,
     status_code |-> status_code,
     headers |-> headers, handler_calls |-> handler_calls,
     guard |-> guard, tenant_dep |-> tenant_dep,
     current_user |-> IF handler_calls > 0 THEN guard.value ELSE NoTokenData,
     tenant |-> IF handler_calls > 0 THEN tenant_dep.value
                ELSE NoTenantContext]

\* routers/finance.py:29-41 and 66-136: the dependencies are resolved in the
\* order of the parameters and the first exception is the response; then
\* the body is validated (422); then the handler runs and answers 201, or
\* 500 when the database fails (db_ok)
create_journal_entry(request, db_ok, current, zone) ==
    LET guard == require_permission("create_finance",
                     get_current_user(request, current, zone))
    IN  IF guard.raised
        THEN RouteOutcome(request, guard.exc.status_code, guard.exc.headers, 0,
                          guard, NoDep)
        ELSE LET tenant_dep == get_tenant_context(request)
             IN  IF tenant_dep.raised
                 THEN RouteOutcome(request, tenant_dep.exc.status_code, <<>>, 0,
                                   guard, tenant_dep)
                 ELSE IF ~request.entry_valid
                 THEN RouteOutcome(request, 422, <<>>, 0, guard, tenant_dep)
                 ELSE RouteOutcome(request, IF db_ok THEN 201 ELSE 500, <<>>, 1,
                                   guard, tenant_dep)

\* the identities tokens are issued for: every role, and a role that is not
\* one of UserRole
GuardData ==
    [sub : {StrUserId}, email : {StrEmail},
     role : UserRoleValues \cup {RoleRoot}]

\* the required permissions, lists of permissions and lists of roles
RequiredPermissions == Range(Permissions)
RequiredLists ==
    {<<>>, <<"create_finance">>, <<"view_finance", "view_hr">>,
     <<"delete_finance", "delete_hr">>, <<"manage_users", "view_sales">>}
RequiredRoles ==
    {<<>>, <<RoleAdmin>>, <<RoleFinance, RoleManager>>,
     <<RoleViewer, RoleHr, RoleSales, RoleInventory>>}

\* a request with the token in the Authorization header, or with no token
GuardRequests(token) ==
    [credentials : {NoToken, token}, auth_token : {NoToken}, token : {NoToken}]

\* a request to POST /api/finance/journal-entries
RouteRequests(token) ==
    [credentials : {NoToken, token}, auth_token : {NoToken}, token : {NoToken},
     x_tenant_id : {None, StrTenant1, StrTenant3, StrUnknownId},
     host : {HostLocal}, path : {PathJournalEntries},
     state_tenant_id : {None}, entry_valid : BOOLEAN]

InitGuard == InitAuth

guardFrame == <<limVars, ruleVars, tenVars, pipeVars, role_permissions>>

\* dependencies.py:51-87 at the current time, with the default lifetime
IssueAccessToken(data) ==
    /\ tok' = create_access_token(data, NoDelta, utcnow)
    /\ areq' = NoAuthRequest
    /\ ares' = NoAuth
    /\ rres' = NoRoute
    /\ UNCHANGED <<utcnow, tz, guardFrame>>

\* dependencies.py:308-325 resolved for a request
RequirePermission(required_permission, request) ==
    /\ areq' = request
    /\ ares' = require_permission(required_permission,
                                  get_current_user(request, utcnow, tz))
    /\ rres' = NoRoute
    /\ UNCHANGED <<utcnow, tz, tok, guardFrame>>

\* dependencies.py:328-343 resolved for a request
RequireRole(required_roles, request) ==
    /\ areq' = request
    /\ ares' = require_role(required_roles,
                            get_current_user(request, utcnow, tz))
    /\ rres' = NoRoute
    /\ UNCHANGED <<utcnow, tz, tok, guardFrame>>

\* dependencies.py:346-363 resolved for a request
RequireAnyPermission(required_permissions, request) ==
    /\ areq' = request
    /\ ares' = require_any_permission(required_permissions,
                                      get_current_user(request, utcnow, tz))
    /\ rres' = NoRoute
    /\ UNCHANGED <<utcnow, tz, tok, guardFrame>>

\* dependencies.py:366-383 resolved for a request
RequireAllPermissions(required_permissions, request) ==
    /\ areq' = request
    /\ ares' = require_all_permissions(required_permissions,
                                       get_current_user(request, utcnow, tz))
    /\ rres' = NoRoute
    /\ UNCHANGED <<utcnow, tz, tok, guardFrame>>

\* routers/finance.py:29-136: a request to the route is answered
CreateJournalEntry(request, db_ok) ==
    /\ areq' = request
    /\ ares' = NoAuth
    /\ rres' = create_journal_entry(request, db_ok, utcnow, tz)
    /\ UNCHANGED <<utcnow, tz, tok, guardFrame>>

\* the clock advances
GuardTick ==
    /\ utcnow < AuthStart + MaxGuardTime
    /\ utcnow' = utcnow + 1
    /\ areq' = NoAuthRequest
    /\ ares' = NoAuth
    /\ rres' = NoRoute
    /\ UNCHANGED <<tz, tok, guardFrame>>

NextGuard ==
    \/ \E data \in GuardData : IssueAccessToken(data)
    \/ \E required_permission \in RequiredPermissions,
          request \in GuardRequests(tok) :
          RequirePermission(required_permission, request)
    \/ \E required_roles \in RequiredRoles, request \in GuardRequests(tok) :
          RequireRole(required_roles, request)
    \/ \E required_permissions \in RequiredLists,
          request \in GuardRequests(tok) :
          RequireAnyPermission(required_permissions, request)
    \/ \E required_permissions \in RequiredLists,
          request \in GuardRequests(tok) :
          RequireAllPermissions(required_permissions, request)
    \/ \E request \in RouteRequests(tok), db_ok \in BOOLEAN :
          CreateJournalEntry(request, db_ok)
    \/ GuardTick

SpecGuard == InitGuard /\ [][NextGuard]_vars

----------------------------------------------------------------------------
(* Claims checked under SpecGuard *)

\* C18: the role-to-permission map is defined on exactly the seven roles;
\* the permissions of every role are a non-empty subset of the Permission
\* universe, those of admin are the whole universe, and after every
\* operation the map is the one defined at process start.
C18_RolePermissionsTotal ==
    /\ DOMAIN role_permissions = UserRoleValues
    /\ Cardinality(UserRoleValues) = 7
    /\ \A role \in UserRoleValues :
          /\ get_user_permissions(role) # <<>>
          /\ Range(get_user_permissions(role)) \subseteq Range(Permissions)
    /\ Range(get_user_permissions(RoleAdmin)) = Range(Permissions)
    /\ role_permissions = ROLE_PERMISSIONS

\* C18 witness: guards have read the map: a viewer was refused by
\* require_permission and the map still gives the viewer its permissions
C18_Witness ==
    /\ ares.op = "require_permission"
    /\ ~ares.auth.raised
    /\ ares.auth.value.role = RoleViewer
    /\ ares.raised
    /\ Len(role_permissions[RoleViewer]) = 4

\* the guard operations
GuardOps ==
    {"require_permission", "require_role", "require_any_permission",
     "require_all_permissions"}

\* C19: for a verified identity, require_permission(p) passes iff p is a
\* permission of the role, require_any_permission(P) iff some member of P
\* is, require_all_permissions(P) iff every member of P is, require_role(S)
\* iff the role is in S; a guard that does not pass raises 403, one that
\* passes returns the identity get_current_user produced.
C19_GuardsDecideBySetCheck ==
    (ares.op \in GuardOps /\ ~ares.auth.raised) =>
        LET identity == get_current_user(areq, ares.auth.at, tz).value
            perms == Range(ROLE_PERMISSIONS[identity.role])
            passes ==
                CASE ares.op = "require_permission" -> ares.required \in perms
                  [] ares.op = "require_any_permission" ->
                         Range(ares.required) \cap perms # {}
                  [] ares.op = "require_all_permissions" ->
                         Range(ares.required) \subseteq perms
                  [] ares.op = "require_role" ->
                         identity.role \in Range(ares.required)
        IN  /\ ~ares.raised <=> passes
            /\ ares.raised =>
                  /\ ares.exc.class = "HTTPException"
                  /\ ares.exc.status_code = 403
                  /\ ares.value = NoTokenData
            /\ ~ares.raised =>
                  /\ ares.value = identity
                  /\ ares.value # NoTokenData

\* C19 witness: the hr role holds delete_hr and not delete_finance:
\* require_any_permission of the two passed and returned the identity
C19_Witness ==
    /\ ares.op = "require_any_permission"
    /\ ares.required = <<"delete_finance", "delete_hr">>
    /\ ~ares.auth.raised
    /\ ares.auth.value.role = RoleHr
    /\ ~ares.raised
    /\ ares.value.role = RoleHr
    /\ ares.value.user_id = StrUserId

\* the token of a request to the route is an access token of the server for
\* a subject, an e-mail address and a role of UserRole that has not expired
ValidTokenAt(request, current) ==
    LET source == FirstSource(request)
    IN  /\ source # <<>>
        /\ WellFormed(source[1])
        /\ source[1].payload.type = "access"
        /\ ~ExpiredAt(source[1], current)

\* C20: on the finance create route a request without a token gets 401 with
\* WWW-Authenticate: Bearer; a request with a valid token whose role lacks
\* create_finance gets 403; a request with a valid admin token and a header
\* naming an active tenant reaches the handler; the handler runs only with
\* the identity the guard returned for a verified token and the context
\* validate_tenant returned for an active tenant.
C20_ProtectedRoute ==
    rres.op = "create_journal_entry" =>
        LET request == rres.request
            current == rres.guard.auth.at
        IN  /\ FirstSource(request) = <<>> =>
                  /\ rres.status_code = 401
                  /\ "WWW-Authenticate" \in DOMAIN rres.headers
                  /\ rres.headers["WWW-Authenticate"] = "Bearer"
            /\ (/\ ValidTokenAt(request, current)
                /\ "create_finance" \notin
                       Range(ROLE_PERMISSIONS[FirstSource(request)[1].payload.role]))
                  => rres.status_code = 403
            /\ (/\ ValidTokenAt(request, current)
                /\ FirstSource(request)[1].payload.role = RoleAdmin
                /\ request.x_tenant_id \in DOMAIN MockTenants
                /\ MockTenants[request.x_tenant_id].is_active
                /\ request.entry_valid)
                  => /\ rres.handler_calls = 1
                     /\ rres.status_code \in {201, 500}
            /\ rres.handler_calls > 0 =>
                  /\ ~rres.guard.raised
                  /\ ~rres.guard.auth.raised
                  /\ rres.guard.auth.verified = FirstSource(request)
                  /\ rres.current_user = rres.guard.auth.value
                  /\ rres.current_user # NoTokenData
                  /\ ~rres.tenant_dep.raised
                  /\ rres.tenant_dep.validated # <<>>
                  /\ rres.tenant = rres.tenant_dep.value
                  /\ rres.tenant.is_active
            /\ rres.handler_calls \in {0, 1}

----------------------------------------------------------------------------
(* Two routes that declare a guard before get_tenant_context: SpecRoutes *)

\* "/api/hr/employees"
PathEmployees ==
    <<"/", "a", "p", "i", "/", "h", "r", "/", "e", "m", "p", "l", "o",
    "y", "e", "e", "s">>

\* routers/hr.py:199-240: the dependencies are resolved in the order of the
\* parameters and the first exception is the response; then the handler
\* answers 200
list_employees(request, current, zone) ==
    LET guard == require_permission("view_hr",
                     get_current_user(request, current, zone))
        outcome(status_code, headers, handler_calls, tenant_dep) ==
            [RouteOutcome(request, status_code, headers, handler_calls, guard,
                          tenant_dep) EXCEPT !.op = "list_employees"]
    IN  IF guard.raised
        THEN outcome(guard.exc.status_code, guard.exc.headers, 0, NoDep)
        ELSE LET tenant_dep == get_tenant_context(request)
             IN  IF tenant_dep.raised
                 THEN outcome(tenant_dep.exc.status_code, <<>>, 0, tenant_dep)
                 ELSE outcome(200, <<>>, 1, tenant_dep)

\* the tenant identifiers of a request: none, an active tenant, an inactive
\* one, an unknown one
TenantIdentifiers == {None, StrTenant1, StrTenant3, StrUnknownId}

\* requests to a route with no token, with something that is not a token, or
\* with the token issued last
TenantRouteRequests(token, path) ==
    [credentials : {NoToken, GarbageToken, token}, auth_token : {NoToken},
     token : {NoToken}, x_tenant_id : TenantIdentifiers, host : {HostLocal},
     path : {path}, state_tenant_id : {None}, entry_valid : {TRUE}]

\* GET /api/hr/employees
ListEmployees(request) ==
    /\ areq' = request
    /\ ares' = NoAuth
    /\ rres' = list_employees(request, utcnow, tz)
    /\ UNCHANGED <<utcnow, tz, tok, guardFrame>>

NextRoutes ==
    \/ \E data \in GuardData : IssueAccessToken(data)
    \/ \E request \in TenantRouteRequests(tok, PathJournalEntries) :
          CreateJournalEntry(request, TRUE)
    \/ \E request \in TenantRouteRequests(tok, PathEmployees) :
          ListEmployees(request)
    \/ GuardTick

SpecRoutes == InitGuard /\ [][NextRoutes]_vars

\* the response of the route of rres to the same request at the same time
\* with another tenant identifier
WithTenant(x_tenant_id) ==
    LET request == [rres.request EXCEPT !.x_tenant_id = x_tenant_id]
        current == rres.guard.auth.at
    IN  IF rres.op = "list_employees"
        THEN list_employees(request, current, tz)
        ELSE create_journal_entry(request, TRUE, current, tz)

\* the permission the guard of the route of rres requires
RoutePermission ==
    IF rres.op = "list_employees" THEN "view_hr" ELSE "create_finance"

\* C30: on a route that declares its guard before get_tenant_context, of two
\* requests that differ only in the tenant identifier (absent, unknown,
\* inactive, active) both get 401 when the token is missing or invalid and
\* both get 403 when the role lacks the permission: the status an
\* unauthenticated or unauthorized caller sees does not depend on the tenant.
C30_AuthBeforeTenant ==
    rres.op \in {"create_journal_entry", "list_employees"} =>
        LET request == rres.request
            current == rres.guard.auth.at
        IN  /\ ~ValidTokenAt(request, current) =>
                  \A x_tenant_id \in TenantIdentifiers :
                      WithTenant(x_tenant_id).status_code = 401
            /\ (/\ ValidTokenAt(request, current)
                /\ RoutePermission \notin
                       Range(ROLE_PERMISSIONS[FirstSource(request)[1].payload.role]))
                  => \A x_tenant_id \in TenantIdentifiers :
                         WithTenant(x_tenant_id).status_code = 403
            /\ rres.guard.raised =>
                  /\ rres.status_code \in {401, 403}
                  /\ rres.tenant_dep = NoDep
                  /\ \A x_tenant_id \in TenantIdentifiers :
                         WithTenant(x_tenant_id).status_code = rres.status_code

====
